---- MODULE Spec2Model ----
(***************************************************************************)
(* Verification model of the vector-operator control plane.                *)
(*                                                                         *)
(*  Part I   the resource synchronizer (k8sutils reconcileService,         *)
(*           reconcileSecret, ... : create, then get, then update) run     *)
(*           against a versioned object store with a concurrent writer.    *)
(*  Part II  the reconcile pass of the Vector controller                   *)
(*           (VectorReconciler.Reconcile / createOrUpdateVector and the    *)
(*           waitPipelineChecks gate) run against the instance's status    *)
(*           store and its collaborators.                                  *)
(*  Part III the configuration builder (Builder.generateVectorConfig:      *)
(*           getComponents, the defaults, mergeKubernetesSources,          *)
(*           mergeSyncs, cfgToMap) and generateVrlFilter, applied to       *)
(*           bounded sets of pipelines, sinks and label selectors.         *)
(***************************************************************************)
EXTENDS Integers, Sequences, FiniteSets, TLC

(***************************************************************************)
(* Bounds of the model.                                                    *)
(***************************************************************************)
\* how many Sync calls one behaviour makes
MaxCalls == 2
\* how many writes (create, modify, delete) the other writers of the
\* cluster make to the synchronized object
MaxExternalWrites == 2
\* how many distinct configurations the pipelines can build to
NumConfigs == 3
\* how many times, in all, the pipeline set is changed, another writer
\* writes or deletes an instance, or a request to a collaborator fails for
\* reasons of its own
MaxEvents == 2
\* how many pipeline checks can be outstanding at once
MaxChecks == 1
\* PipelineCheckTimeout, in clock ticks
GateTimeout == 2
\* pipelines handed to the builder
MaxPipelines == 2
\* sinks in a list handed to mergeSyncs on its own
MaxSinks == 4
\* clauses in a pod-label selector handed to generateVrlFilter
MaxClauses == 2

(***************************************************************************)
(* ----------------------------- PART I ---------------------------------- *)
(* Objects.  One object key is followed; its kind is fixed by Init.        *)
(* A field value is a small number, 0 being Go's zero value (nil map,      *)
(* empty struct, "").                                                      *)
(***************************************************************************)
Kinds == {"Service", "Secret", "DaemonSet", "StatefulSet", "ServiceAccount",
          "ClusterRole", "ClusterRoleBinding"}

Vals == {0, 1}

\* metadata the API server owns, and the rest of the object
ServerFields == {"resourceVersion", "uid"}
AllFields == {"labels", "annotations", "spec", "data", "rules", "roleRef",
              "subjects", "status", "resourceVersion", "uid"}

\* the fields, other than the server's metadata, that a kind's Go type has
KindFields(k) ==
    CASE k \in {"Service", "DaemonSet", "StatefulSet"} ->
            {"labels", "annotations", "spec", "status"}
      [] k = "Secret" -> {"labels", "annotations", "data"}
      [] k = "ServiceAccount" -> {"labels", "annotations"}
      [] k = "ClusterRole" -> {"labels", "annotations", "rules"}
      [] k = "ClusterRoleBinding" -> {"labels", "annotations", "roleRef", "subjects"}

ZeroObject == [f \in AllFields |-> 0]

\* the objects the operator hands to Sync: built in memory, so without
\* resource version, uid or status
DesiredObjects(k) ==
    {o \in [AllFields -> Vals] :
        \A f \in AllFields : f \notin (KindFields(k) \ {"status"}) => o[f] = 0}

NoObject == [none |-> TRUE]

\* errors of the store, as the code tells them apart
NoError == "nil"
AlreadyExists == "AlreadyExists"
NotFound == "NotFound"
Conflict == "Conflict"
\* any other failure of a request (forbidden, timeout, connection refused)
OtherErrors == {"Forbidden", "Timeout"}

VARIABLES
    kind,         \* the kind of the object that is synchronized
    cluster,      \* the object the store holds under the key, or NoObject
    revision,     \* the store's revision counter (source of resource versions)
    extWrites,    \* writes made so far by other writers
    syncPc,       \* position of the Sync call: idle, create, get, update, done
    desired,      \* argument of the running Sync call
    existing,     \* the call's local "existing" object
    fetched,      \* what c.Get returned to the call (kept for reference)
    createErr,    \* err of c.Create
    syncErr,      \* the error the call returned
    opLog,        \* the store requests the call issued, in order
    submitted,    \* the object handed to c.Update
    staleSinceGet,\* another writer wrote the object after the call's Get
    calls,        \* Sync calls started so far
    history       \* between calls: the object given to the last call, if that
                  \* call returned no error and no other writer has written
                  \* since it began; in a call: whether the call repeats that one

syncVars == <<kind, cluster, revision, extWrites, syncPc, desired, existing,
              fetched, createErr, syncErr, opLog, submitted, staleSinceGet, calls,
              history>>

\* state of Part II (declared here so that both parts share one state)
VARIABLES
    vec,          \* the store's Vector instances: lifecycle, version, status
    pipes,        \* the pipeline set now visible (what the builder is given)
    wgCount,      \* PipelineCheckWG's counter: outstanding pipeline checks
    loopVarShared,\* the build's range-loop variable is one variable per loop
    pc,           \* position of the running Reconcile call
    req,          \* its request: an instance name, or "" for the whole fleet
    chanClosed,   \* waitPipelineChecks: channel c has been closed
    elapsed,      \* waitPipelineChecks: ticks since the wait began
    gateResult,   \* what waitPipelineChecks returned
    mem,          \* the Vector objects the call holds in memory
    work,         \* the pointers reconcileVectors ranges over (indices of mem)
    cur,          \* index of the pointer in work being reconciled
    byteConfig,   \* createOrUpdateVector: the built configuration
    cfgHash,      \* createOrUpdateVector: its hash
    reason,       \* createOrUpdateVector: the validator's reason
    trace,        \* the steps createOrUpdateVector took for the current object
    callErr,      \* what createOrUpdateVector returned
    ret,          \* what Reconcile returned
    validated,    \* per instance, the configurations handed to the validator
    events        \* pipeline changes, foreign status writes and failures so far

orchVars == <<vec, pipes, wgCount, loopVarShared, pc, req, chanClosed, elapsed,
              gateResult, mem, work, cur, byteConfig, cfgHash, reason, trace,
              callErr, ret, validated, events>>

\* state of Part III (declared here so that all parts share one state)
VARIABLES
    pipelines,    \* Builder.Pipelines: what the build is given
    agent,        \* the Vector's InternalMetrics, MergeKubernetesSources, MergeSinks
    bpc,          \* position of generateVectorConfig
    config,       \* vectorConfig: Sources, Transforms, Sinks
    buildErr,     \* the error generateVectorConfig returns
    snap,         \* the configuration as it was after each stage
    cfgMap,       \* cfgToMap: the name-keyed sources / transforms / sinks
    rebuilt,      \* GetByteConfig run again on the same pipelines and settings
    msIn,         \* a list of sinks handed to mergeSyncs
    msOnce,       \* mergeSyncs applied to it
    msTwice,      \* mergeSyncs applied to that
    msPc,         \* how often mergeSyncs has been applied
    podSel,       \* a source's pod-label selector, as clauses
    nsSel,        \* its namespace-label selector, as clauses
    route,        \* the route expression generated for the source
    record,       \* a log record's pod labels and namespace labels
    fpc           \* position of the route's generation and evaluation

bldVars == <<pipelines, agent, bpc, config, buildErr, snap, cfgMap, rebuilt,
             msIn, msOnce, msTwice, msPc, podSel, nsSel, route, record, fpc>>

vars == <<syncVars, orchVars, bldVars>>

(***************************************************************************)
(* equality.Semantic.DeepEqual(existing, desired): the two objects are     *)
(* compared whole, metadata and status included.                           *)
(***************************************************************************)
DeepEqual(a, b) == \A f \in AllFields : a[f] = b[f]

(***************************************************************************)
(* The assignments each reconcile function makes to the fetched object     *)
(* before it submits it.                                                   *)
(***************************************************************************)
\* a variant that submits the desired object, not the fetched one
reconcileServiceFields_SubmitDesired(e, d) == d

reconcileServiceFields(e, d) == [e EXCEPT !.spec = d.spec, !.labels = d.labels]

reconcileSecretFields(e, d) == [e EXCEPT !.data = d.data, !.labels = d.labels]

\* a variant that copies the desired status too
reconcileDaemonSetFields_WithStatus(e, d) ==
    [e EXCEPT !.spec = d.spec, !.labels = d.labels, !.status = d.status]

reconcileDaemonSetFields(e, d) == [e EXCEPT !.spec = d.spec, !.labels = d.labels]

reconcileStatefulSetFields(e, d) == [e EXCEPT !.spec = d.spec, !.labels = d.labels]

reconcileClusterRoleFields(e, d) == [e EXCEPT !.rules = d.rules]

reconcileClusterRoleBindingFields(e, d) ==
    [e EXCEPT !.roleRef = d.roleRef, !.subjects = d.subjects]

\* reconcileServiceAccount has no compare-and-update branch
HasUpdateBranch(k) == k # "ServiceAccount"

Overwrite(k, e, d) ==
    CASE k = "Service" -> reconcileServiceFields(e, d)
      [] k = "Secret" -> reconcileSecretFields(e, d)
      [] k = "DaemonSet" -> reconcileDaemonSetFields(e, d)
      [] k = "StatefulSet" -> reconcileStatefulSetFields(e, d)
      [] k = "ClusterRole" -> reconcileClusterRoleFields(e, d)
      [] k = "ClusterRoleBinding" -> reconcileClusterRoleBindingFields(e, d)
      [] OTHER -> e

(***************************************************************************)
(* The store (the cluster API) as the calls of the code see it.            *)
(***************************************************************************)
\* the object the store keeps for a create request
StoredOnCreate(o, rev) ==
    [o EXCEPT !.resourceVersion = rev, !.uid = rev, !.status = 0]

\* c.Update: the store's answer to an update request carrying object o.
\* A uid or resource version the request carries is a precondition of the
\* write; a request that carries none is applied unconditionally.
UpdateAnswer(o) ==
    IF cluster = NoObject THEN NotFound
    ELSE IF \/ (o.uid # 0 /\ o.uid # cluster.uid)
            \/ (o.resourceVersion # 0 /\ o.resourceVersion # cluster.resourceVersion)
         THEN Conflict
         ELSE NoError

\* what an accepted update stores: identity and status stay the store's, and
\* an object that comes out unchanged keeps its version
StoredOnUpdate(o, rev) ==
    LET n == [o EXCEPT !.uid = cluster.uid, !.status = cluster.status,
                       !.resourceVersion = cluster.resourceVersion]
    IN  IF n = cluster THEN cluster ELSE [n EXCEPT !.resourceVersion = rev]

\* nothing is remembered: no call has returned yet, the last one failed, or
\* another writer has written since it began
NoHistory == [call |-> "none"]
Disturbed == NoHistory

\* a call begins with the object d: it repeats the last call or it does not
Began(h, d) ==
    IF h = [call |-> "returned", desired |-> d] THEN [call |-> "repeat"]
    ELSE [call |-> "first"]

\* what is remembered of a returned call: the object it was given, if it
\* returned no error and no other writer wrote while it ran
LastCall(h, d, err) ==
    IF err = NoError /\ h # Disturbed THEN [call |-> "returned", desired |-> d]
    ELSE NoHistory

(***************************************************************************)
(* Other writers of the cluster object.                                    *)
(***************************************************************************)
ExternalCreate ==
    /\ extWrites < MaxExternalWrites
    /\ cluster = NoObject
    /\ \E o \in [AllFields -> Vals] :
          /\ \A f \in AllFields : f \notin KindFields(kind) => o[f] = 0
          /\ cluster' = [o EXCEPT !.resourceVersion = revision + 1,
                                  !.uid = revision + 1]
    /\ revision' = revision + 1
    /\ extWrites' = extWrites + 1
    /\ staleSinceGet' = (staleSinceGet \/ syncPc = "update")
    /\ history' = Disturbed
    /\ UNCHANGED <<kind, syncPc, desired, existing, fetched, createErr, syncErr,
                   opLog, submitted, calls>>
    /\ UNCHANGED <<orchVars, bldVars>>

ExternalModify ==
    /\ extWrites < MaxExternalWrites
    /\ cluster # NoObject
    /\ \E f \in KindFields(kind), v \in Vals :
          /\ v # cluster[f]
          /\ cluster' = [cluster EXCEPT ![f] = v, !.resourceVersion = revision + 1]
    /\ revision' = revision + 1
    /\ extWrites' = extWrites + 1
    /\ staleSinceGet' = (staleSinceGet \/ syncPc = "update")
    /\ history' = Disturbed
    /\ UNCHANGED <<kind, syncPc, desired, existing, fetched, createErr, syncErr,
                   opLog, submitted, calls>>
    /\ UNCHANGED <<orchVars, bldVars>>

ExternalDelete ==
    /\ extWrites < MaxExternalWrites
    /\ cluster # NoObject
    /\ cluster' = NoObject
    /\ revision' = revision + 1
    /\ extWrites' = extWrites + 1
    /\ staleSinceGet' = (staleSinceGet \/ syncPc = "update")
    /\ history' = Disturbed
    /\ UNCHANGED <<kind, syncPc, desired, existing, fetched, createErr, syncErr,
                   opLog, submitted, calls>>
    /\ UNCHANGED <<orchVars, bldVars>>

(***************************************************************************)
(* Sync(desired): CreateOrUpdate<Kind> -> reconcile<Kind>.                 *)
(***************************************************************************)
\* the call is entered with a desired object; existing := &Kind{}
SyncStart ==
    /\ syncPc = "idle"
    /\ calls < MaxCalls
    /\ \E d \in DesiredObjects(kind) : desired' = d
    /\ syncPc' = "create"
    /\ calls' = calls + 1
    /\ history' = Began(history, desired')
    /\ UNCHANGED <<kind, cluster, revision, extWrites, existing, fetched,
                   createErr, syncErr, opLog, submitted, staleSinceGet>>
    /\ UNCHANGED <<orchVars, bldVars>>

\* a variant that reads the object after any failed create
AfterCreate_GetOnAnyError(err) ==
    IF err # NoError THEN "get" ELSE "done"

\* where the call goes after c.Create returned err
AfterCreate(err) ==
    IF err = AlreadyExists THEN "get" ELSE "done"

\* err := c.Create(ctx, desired), and the two tests of err that follow
SyncCreate ==
    /\ syncPc = "create"
    /\ opLog' = Append(opLog, "create")
    /\ \/ \* the request fails before or in the store
          /\ \E e \in OtherErrors : createErr' = e
          /\ UNCHANGED <<cluster, revision>>
       \/ /\ cluster # NoObject
          /\ createErr' = AlreadyExists
          /\ UNCHANGED <<cluster, revision>>
       \/ /\ cluster = NoObject
          /\ createErr' = NoError
          /\ cluster' = StoredOnCreate(desired, revision + 1)
          /\ revision' = revision + 1
    /\ syncPc' = AfterCreate(createErr')
    /\ syncErr' = IF createErr' = AlreadyExists THEN NoError ELSE createErr'
    /\ UNCHANGED <<kind, extWrites, desired, existing, fetched, submitted,
                   staleSinceGet, calls, history>>
    /\ UNCHANGED <<orchVars, bldVars>>

\* where the call goes after a successful c.Get
AfterGet(k, e, d) ==
    IF HasUpdateBranch(k) /\ ~DeepEqual(e, d) THEN "update" ELSE "done"

\* err := c.Get(ctx, key, existing); the comparison; the field assignments
SyncGet ==
    /\ syncPc = "get"
    /\ opLog' = Append(opLog, "get")
    /\ \/ /\ \E e \in OtherErrors : syncErr' = e
          /\ syncPc' = "done"
          /\ UNCHANGED <<existing, fetched>>
       \/ /\ cluster = NoObject
          /\ syncErr' = NotFound
          /\ syncPc' = "done"
          /\ UNCHANGED <<existing, fetched>>
       \/ /\ cluster # NoObject
          /\ fetched' = cluster
          /\ syncErr' = NoError
          /\ syncPc' = AfterGet(kind, cluster, desired)
          /\ existing' = IF syncPc' = "update"
                         THEN Overwrite(kind, cluster, desired)
                         ELSE cluster
    /\ staleSinceGet' = FALSE
    /\ UNCHANGED <<kind, cluster, revision, extWrites, desired, createErr,
                   submitted, calls, history>>
    /\ UNCHANGED <<orchVars, bldVars>>

\* err := c.Update(ctx, existing); return nil, err
SyncUpdate ==
    /\ syncPc = "update"
    /\ opLog' = Append(opLog, "update")
    /\ submitted' = existing
    /\ \/ /\ \E e \in OtherErrors : syncErr' = e
          /\ UNCHANGED <<cluster, revision>>
       \/ /\ UpdateAnswer(existing) # NoError
          /\ syncErr' = UpdateAnswer(existing)
          /\ UNCHANGED <<cluster, revision>>
       \/ /\ UpdateAnswer(existing) = NoError
          /\ syncErr' = NoError
          /\ cluster' = StoredOnUpdate(existing, revision + 1)
          /\ revision' = IF cluster' = cluster THEN revision ELSE revision + 1
    /\ syncPc' = "done"
    /\ UNCHANGED <<kind, extWrites, desired, existing, fetched, createErr,
                   staleSinceGet, calls, history>>
    /\ UNCHANGED <<orchVars, bldVars>>

\* the call has returned: its locals are gone, the caller may call again
SyncReturn ==
    /\ syncPc = "done"
    /\ syncPc' = "idle"
    /\ desired' = ZeroObject
    /\ existing' = ZeroObject
    /\ fetched' = NoObject
    /\ createErr' = NoError
    /\ syncErr' = NoError
    /\ opLog' = <<>>
    /\ submitted' = NoObject
    /\ staleSinceGet' = FALSE
    /\ history' = LastCall(history, desired, syncErr)
    /\ UNCHANGED <<kind, cluster, revision, extWrites, calls>>
    /\ UNCHANGED <<orchVars, bldVars>>

(***************************************************************************)
(* ----------------------------- PART II --------------------------------- *)
(* The Vector controller: Reconcile, reconcileVectors,                     *)
(* createOrUpdateVector and waitPipelineChecks.                            *)
(***************************************************************************)
Instances == {"v1", "v2"}

\* the order in which client.List returns the instances
ListOrder == <<"v1", "v2">>

Configs == 1 .. NumConfigs

\* a pipeline set either builds to a configuration or, written 0, is one
\* the builder rejects
PipelineSets == 0 .. NumConfigs

\* the configurations the external validator finds invalid
InvalidConfigs == {2}

\* the reason the validator gives for a rejection
RejectReason == "invalid config"

\* errors of the collaborators
ValidationError == "ValidationError"
PipelineTypeError == "PipelineTypeError"
ListError == "ListError"
GetError == "GetError"
PipelinesError == "PipelinesError"
ValidatorFailure == "ValidatorFailure"
ApplyError == "ApplyError"
StatusTimeout == "StatusTimeout"

\* *uint32 LastAppliedConfigHash: the empty set is nil, {h} points to h
NilHash == {}
HashPtr(h) == {h}

\* hash.Get(byteConfig): a 32-bit hash of the bytes, so not injective; here
\* configurations 1 and 2 collide, 3 and 4 collide, and so on
HashGet(c) == (c + 1) \div 2

Hashes == {HashGet(c) : c \in Configs}

\* a Vector object as the store holds it
VecObject(st, rv, h, ph, rs) ==
    [state |-> st, rv |-> rv, hash |-> h, phase |-> ph, reason |-> rs]

\* the copy of instance i that a Get or List hands to the controller
Fetched(i) ==
    [name |-> i, rv |-> vec[i].rv, deleting |-> (vec[i].state = "deleting"),
     hash |-> vec[i].hash, phase |-> vec[i].phase, reason |-> vec[i].reason]

NoVector == [name |-> "", rv |-> 0, deleting |-> FALSE, hash |-> NilHash,
             phase |-> "unset", reason |-> ""]

Step(name, res) == [step |-> name, res |-> res]

\* the object createOrUpdateVector is working on (vaCtrl.Vector)
v == mem[work[cur]]

(***************************************************************************)
(* waitPipelineChecks                                                      *)
(***************************************************************************)
\* a variant with no timer case in the select
TimerReady_Never(t) == FALSE

\* case <-time.After(timeout): the case is ready once the timeout has elapsed
TimerReady(t) == t >= GateTimeout

\* the select: the values waitPipelineChecks can return now
SelectCases(closed, t) ==
    (IF closed THEN {"completed"} ELSE {}) \cup
    (IF TimerReady(t) THEN {"timeout"} ELSE {})

(***************************************************************************)
(* Pure steps of Reconcile and createOrUpdateVector                        *)
(***************************************************************************)
\* listVectorCustomResourceInstances: the pointers appended to vectors.
\* Each is &vector, the address of the range loop's variable: one variable
\* per iteration, or one for the whole loop, which ends holding the last item.
ListedObjects(shared) ==
    LET names == SelectSeq(ListOrder, LAMBDA i : vec[i].state # "absent")
        items == [k \in 1 .. Len(names) |-> Fetched(names[k])]
    IN  IF shared /\ Len(items) > 0
        THEN [mem |-> <<items[Len(items)]>>, work |-> [k \in 1 .. Len(items) |-> 1]]
        ELSE [mem |-> items, work |-> [k \in 1 .. Len(items) |-> k]]

\* reconcileVectors: the first index from k on whose object has no deletion
\* timestamp; 0 when the loop is over
NextItem(k, m, w) ==
    LET rest == {j \in k .. Len(w) : ~m[w[j]].deleting}
    IN  IF rest = {} THEN 0 ELSE CHOOSE j \in rest : \A j2 \in rest : j <= j2

\* configBuilder.GetByteConfig() on pipeline set p
GetByteConfig(p) ==
    IF p = 0 THEN [err |-> PipelineTypeError, cfg |-> 0]
    ELSE [err |-> NoError, cfg |-> p]

\* a variant that validates on every pass
NeedsValidation_Always(h, c) == TRUE

\* Status.LastAppliedConfigHash == nil || *Status.LastAppliedConfigHash != cfgHash
NeedsValidation(h, c) == h = NilHash \/ h # HashPtr(c)

\* a variant that treats every validator error as a rejection
IsValidationError_Any(e) == e # NoError

\* a variant that never recognises a rejection
IsValidationError_Never(e) == FALSE

\* errors.Is(err, configcheck.ValidationError)
IsValidationError(e) == e = ValidationError

\* configCheck.Run: the verdicts of the validator on configuration c
ValidatorVerdict(c) ==
    IF c \in InvalidConfigs
    THEN [err |-> ValidationError, reason |-> RejectReason]
    ELSE [err |-> NoError, reason |-> ""]

(***************************************************************************)
(* The status store.  k8s.UpdateStatus(ctx, obj, c) is                     *)
(* c.Status().Update(ctx, obj).                                            *)
(***************************************************************************)
\* the store's answer to a status update carrying object o
StatusAnswer(o) ==
    IF vec[o.name].state = "absent" THEN NotFound
    ELSE IF o.rv # vec[o.name].rv THEN Conflict
    ELSE NoError

\* the outcomes of UpdateStatus(o): the error, the store and the object after
UpdateStatus(o) ==
    LET i == o.name
        same == /\ vec[i].hash = o.hash
                /\ vec[i].phase = o.phase
                /\ vec[i].reason = o.reason
        nrv == IF same THEN vec[i].rv ELSE vec[i].rv + 1
    IN  (IF events < MaxEvents
         THEN {[err |-> StatusTimeout, store |-> vec, obj |-> o]} ELSE {})
        \cup
        {IF StatusAnswer(o) # NoError
         THEN [err |-> StatusAnswer(o), store |-> vec, obj |-> o]
         ELSE [err |-> NoError,
               store |-> [vec EXCEPT ![i].hash = o.hash, ![i].phase = o.phase,
                                     ![i].reason = o.reason, ![i].rv = nrv],
               obj |-> [o EXCEPT !.rv = nrv]]}

FaultsAfter(e) ==
    IF e \in {StatusTimeout, ListError, GetError, PipelinesError,
              ValidatorFailure, ApplyError}
    THEN events + 1 ELSE events

\* vaCtrl.SetFailedStatus: the object it writes
SetFailedStatusObject(o, r) == [o EXCEPT !.phase = "failed", !.reason = r]

\* vaCtrl.SetLastAppliedPipelineStatus: the object it writes
SetLastAppliedObject(o, h) == [o EXCEPT !.hash = HashPtr(h)]

\* vaCtrl.SetSucceesStatus: the object it writes
SetSuccessObject(o) == [o EXCEPT !.phase = "ok", !.reason = ""]

(***************************************************************************)
(* The environment of the controller.                                      *)
(***************************************************************************)
passVars == <<pc, req, chanClosed, elapsed, gateResult, mem, work, cur,
              byteConfig, cfgHash, reason, trace, callErr, ret>>

\* a pipeline check starts: PipelineCheckWG.Add(1)
PipelineCheckStart ==
    /\ pc \in {"idle", "gate"}
    /\ wgCount < MaxChecks
    /\ wgCount' = wgCount + 1
    /\ UNCHANGED <<vec, pipes, loopVarShared, passVars, validated, events>>
    /\ UNCHANGED <<syncVars, bldVars>>

\* a pipeline check ends: PipelineCheckWG.Done()
PipelineCheckDone ==
    /\ pc \in {"idle", "gate"}
    /\ wgCount > 0
    /\ wgCount' = wgCount - 1
    /\ UNCHANGED <<vec, pipes, loopVarShared, passVars, validated, events>>
    /\ UNCHANGED <<syncVars, bldVars>>

\* the pipelines change
PipelineChange ==
    /\ events < MaxEvents
    /\ \E p \in PipelineSets : p # pipes /\ pipes' = p
    /\ events' = events + 1
    /\ UNCHANGED <<vec, wgCount, loopVarShared, passVars, validated>>
    /\ UNCHANGED <<syncVars, bldVars>>

\* another writer writes an instance's status
ExternalStatusWrite ==
    /\ events < MaxEvents
    /\ \E i \in Instances, h \in {NilHash} \cup {HashPtr(x) : x \in Hashes},
          ph \in {"unset", "ok", "failed"} :
          /\ vec[i].state # "absent"
          /\ <<h, ph>> # <<vec[i].hash, vec[i].phase>>
          /\ vec' = [vec EXCEPT ![i].hash = h, ![i].phase = ph,
                                ![i].reason = IF ph = "failed" THEN RejectReason ELSE "",
                                ![i].rv = vec[i].rv + 1]
    /\ events' = events + 1
    /\ UNCHANGED <<pipes, wgCount, loopVarShared, passVars, validated>>
    /\ UNCHANGED <<syncVars, bldVars>>

\* an instance is deleted: it gets a deletion timestamp, then goes
InstanceDelete ==
    /\ events < MaxEvents
    /\ events' = events + 1
    /\ \E i \in Instances :
          \/ /\ vec[i].state = "present"
             /\ vec' = [vec EXCEPT ![i].state = "deleting", ![i].rv = vec[i].rv + 1]
          \/ /\ vec[i].state = "deleting"
             /\ vec' = [vec EXCEPT ![i].state = "absent"]
    /\ UNCHANGED <<pipes, wgCount, loopVarShared, passVars, validated>>
    /\ UNCHANGED <<syncVars, bldVars>>

(***************************************************************************)
(* Reconcile                                                               *)
(***************************************************************************)
\* Reconcile(req) is called and enters waitPipelineChecks: the channel is
\* made, the goroutine that waits on the WaitGroup is started, the timer set
Trigger(r) ==
    /\ pc = "idle"
    /\ req' = r
    /\ chanClosed' = FALSE
    /\ elapsed' = 0
    /\ gateResult' = "pending"
    /\ pc' = "gate"
    /\ UNCHANGED <<vec, pipes, wgCount, loopVarShared, mem, work, cur,
                   byteConfig, cfgHash, reason, trace, callErr, ret, validated,
                   events>>
    /\ UNCHANGED <<syncVars, bldVars>>

\* the goroutine: wg.Wait() returns when the counter is zero; close(c)
WaiterWake ==
    /\ pc = "gate"
    /\ ~chanClosed
    /\ wgCount = 0
    /\ chanClosed' = TRUE
    /\ UNCHANGED <<vec, pipes, wgCount, loopVarShared, pc, req, elapsed,
                   gateResult, mem, work, cur, byteConfig, cfgHash, reason,
                   trace, callErr, ret, validated, events>>
    /\ UNCHANGED <<syncVars, bldVars>>

\* time passes while the select waits; it does not pass a ready timer case
Tick ==
    /\ pc = "gate"
    /\ ~TimerReady(elapsed)
    /\ elapsed <= GateTimeout
    /\ elapsed' = elapsed + 1
    /\ UNCHANGED <<vec, pipes, wgCount, loopVarShared, pc, req, chanClosed,
                   gateResult, mem, work, cur, byteConfig, cfgHash, reason,
                   trace, callErr, ret, validated, events>>
    /\ UNCHANGED <<syncVars, bldVars>>

\* the select takes a ready case and waitPipelineChecks returns; Reconcile
\* logs a timeout and goes on
GateReturn ==
    /\ pc = "gate"
    /\ \E g \in SelectCases(chanClosed, elapsed) : gateResult' = g
    /\ chanClosed' = FALSE
    /\ elapsed' = 0
    /\ pc' = "lookup"
    /\ UNCHANGED <<vec, pipes, wgCount, loopVarShared, req, mem, work, cur,
                   byteConfig, cfgHash, reason, trace, callErr, ret, validated,
                   events>>
    /\ UNCHANGED <<syncVars, bldVars>>

\* Reconcile logs the gate's result; req.Namespace == "": list the instances
\* and enter reconcileVectors; otherwise findVectorCustomResourceInstance
Lookup ==
    /\ pc = "lookup"
    /\ \/ \* the List or Get request fails
          /\ events < MaxEvents
          /\ events' = events + 1
          /\ ret' = IF req = "" THEN ListError ELSE GetError
          /\ pc' = "done"
          /\ UNCHANGED <<mem, work, cur>>
       \/ /\ req = ""
          /\ LET l == ListedObjects(loopVarShared)
                 j == NextItem(1, l.mem, l.work)
             IN  /\ mem' = l.mem
                 /\ work' = l.work
                 /\ cur' = j
                 /\ pc' = IF j = 0 THEN "done" ELSE "build"
          /\ ret' = NoError
          /\ UNCHANGED events
       \/ /\ req # ""
          /\ vec[req].state = "absent"
          /\ ret' = NoError
          /\ pc' = "done"
          /\ UNCHANGED <<mem, work, cur, events>>
       \/ /\ req # ""
          /\ vec[req].state # "absent"
          /\ mem' = <<Fetched(req)>>
          /\ work' = <<1>>
          /\ cur' = 1
          /\ ret' = NoError
          /\ pc' = "build"
          /\ UNCHANGED events
    /\ gateResult' = "pending"
    /\ UNCHANGED <<vec, pipes, wgCount, loopVarShared, req, chanClosed, elapsed,
                   byteConfig, cfgHash, reason, trace, callErr,
                   validated>>
    /\ UNCHANGED <<syncVars, bldVars>>

(***************************************************************************)
(* createOrUpdateVector(v)                                                 *)
(***************************************************************************)
\* pipeline.GetValidPipelines, GetByteConfig, hash.Get and the comparison
\* with the recorded hash
Build ==
    /\ pc = "build"
    /\ \/ /\ events < MaxEvents
          /\ events' = events + 1
          /\ callErr' = PipelinesError
          /\ trace' = <<Step("build", "err")>>
          /\ pc' = "returned"
          /\ UNCHANGED <<byteConfig, cfgHash>>
       \/ /\ GetByteConfig(pipes).err # NoError
          /\ callErr' = GetByteConfig(pipes).err
          /\ trace' = <<Step("build", "err")>>
          /\ pc' = "returned"
          /\ UNCHANGED <<byteConfig, cfgHash, events>>
       \/ /\ GetByteConfig(pipes).err = NoError
          /\ byteConfig' = GetByteConfig(pipes).cfg
          /\ cfgHash' = HashGet(byteConfig')
          /\ callErr' = NoError
          /\ trace' = <<Step("build", "ok"),
                        Step("hash", IF NeedsValidation(v.hash, cfgHash')
                                     THEN "changed" ELSE "same")>>
          /\ pc' = IF NeedsValidation(v.hash, cfgHash') THEN "validate" ELSE "apply"
          /\ UNCHANGED events
    /\ reason' = ""
    /\ UNCHANGED <<vec, pipes, wgCount, loopVarShared, req, chanClosed, elapsed,
                   gateResult, mem, work, cur, ret, validated>>
    /\ UNCHANGED <<syncVars, bldVars>>

\* reason, err := configCheck.Run(ctx) and the tests of err
Validate ==
    /\ pc = "validate"
    /\ validated' = [validated EXCEPT ![v.name] = @ \cup {byteConfig}]
    /\ \E out \in {ValidatorVerdict(byteConfig)} \cup
                  (IF events < MaxEvents
                   THEN {[err |-> ValidatorFailure, reason |-> ""]} ELSE {}) :
          /\ events' = FaultsAfter(out.err)
          /\ reason' = out.reason
          /\ IF out.err = NoError
             THEN /\ trace' = Append(trace, Step("validate", "ok"))
                  /\ pc' = "apply"
                  /\ UNCHANGED callErr
             ELSE IF IsValidationError(out.err)
             THEN /\ trace' = Append(trace, Step("validate", "invalid"))
                  /\ pc' = "failstatus"
                  /\ UNCHANGED callErr
             ELSE /\ trace' = Append(trace, Step("validate", "err"))
                  /\ pc' = "returned"
                  /\ callErr' = out.err
    /\ UNCHANGED <<vec, pipes, wgCount, loopVarShared, req, chanClosed, elapsed,
                   gateResult, mem, work, cur, byteConfig, cfgHash, ret>>
    /\ UNCHANGED <<syncVars, bldVars>>

\* a variant that goes on after a failed status write
AfterStatusWrite_IgnoreError(err, next) == next

\* if err := vaCtrl.Set...Status(...); err != nil { return ctrl.Result{}, err }
AfterStatusWrite(err, next) ==
    IF err = NoError THEN next ELSE "returned"

\* a status write of createOrUpdateVector: object o is written in memory and
\* sent to the store; on an error the call returns it, else it goes to next
StatusWrite(name, o, next) ==
    \E out \in UpdateStatus(o) :
        /\ vec' = out.store
        /\ mem' = [mem EXCEPT ![work[cur]] = out.obj]
        /\ events' = FaultsAfter(out.err)
        /\ callErr' = out.err
        /\ trace' = Append(trace, Step(name, IF out.err = NoError THEN "ok" ELSE "err"))
        /\ pc' = AfterStatusWrite(out.err, next)

\* vaCtrl.SetFailedStatus(ctx, reason); return nil, or the error of the write
FailStatus ==
    /\ pc = "failstatus"
    /\ StatusWrite("failstatus", SetFailedStatusObject(v, reason), "returned")
    /\ UNCHANGED <<pipes, wgCount, loopVarShared, req, chanClosed, elapsed,
                   gateResult, work, cur, byteConfig, cfgHash, reason, ret,
                   validated>>
    /\ UNCHANGED <<syncVars, bldVars>>

\* vaCtrl.Config = byteConfig; vaCtrl.EnsureVectorAgent(ctx, configOnly)
Apply ==
    /\ pc = "apply"
    /\ \/ /\ events < MaxEvents
          /\ events' = events + 1
          /\ callErr' = ApplyError
          /\ trace' = Append(trace, Step("apply", "err"))
          /\ pc' = "returned"
       \/ /\ callErr' = NoError
          /\ trace' = Append(trace, Step("apply", "ok"))
          /\ pc' = "sethash"
          /\ UNCHANGED events
    /\ UNCHANGED <<vec, pipes, wgCount, loopVarShared, req, chanClosed, elapsed,
                   gateResult, mem, work, cur, byteConfig, cfgHash, reason, ret,
                   validated>>
    /\ UNCHANGED <<syncVars, bldVars>>

\* vaCtrl.SetLastAppliedPipelineStatus(ctx, &cfgHash)
SetLastApplied ==
    /\ pc = "sethash"
    /\ StatusWrite("sethash", SetLastAppliedObject(v, cfgHash), "setsuccess")
    /\ UNCHANGED <<pipes, wgCount, loopVarShared, req, chanClosed, elapsed,
                   gateResult, work, cur, byteConfig, cfgHash, reason, ret,
                   validated>>
    /\ UNCHANGED <<syncVars, bldVars>>

\* vaCtrl.SetSucceesStatus(ctx); return nil
SetSuccess ==
    /\ pc = "setsuccess"
    /\ StatusWrite("setsuccess", SetSuccessObject(v), "returned")
    /\ UNCHANGED <<pipes, wgCount, loopVarShared, req, chanClosed, elapsed,
                   gateResult, work, cur, byteConfig, cfgHash, reason, ret,
                   validated>>
    /\ UNCHANGED <<syncVars, bldVars>>

\* createOrUpdateVector has returned: Reconcile returns its result for a
\* named instance; reconcileVectors returns its error or goes to the next
\* object that is not being deleted
AfterCall ==
    /\ pc = "returned"
    /\ IF req # "" \/ callErr # NoError
       THEN /\ ret' = callErr
            /\ pc' = "done"
            /\ UNCHANGED <<cur, trace>>
       ELSE LET j == NextItem(cur + 1, mem, work)
            IN  /\ ret' = NoError
                /\ cur' = IF j = 0 THEN cur ELSE j
                /\ pc' = IF j = 0 THEN "done" ELSE "build"
                /\ trace' = IF j = 0 THEN trace ELSE <<>>
    /\ UNCHANGED <<vec, pipes, wgCount, loopVarShared, req, chanClosed, elapsed,
                   gateResult, mem, work, byteConfig, cfgHash, reason, callErr,
                   validated, events>>
    /\ UNCHANGED <<syncVars, bldVars>>

\* Reconcile has returned; its locals are gone
ReconcileReturn ==
    /\ pc = "done"
    /\ pc' = "idle"
    /\ req' = ""
    /\ chanClosed' = FALSE
    /\ elapsed' = 0
    /\ gateResult' = "pending"
    /\ mem' = <<>>
    /\ work' = <<>>
    /\ cur' = 0
    /\ byteConfig' = 0
    /\ cfgHash' = 0
    /\ reason' = ""
    /\ trace' = <<>>
    /\ callErr' = NoError
    /\ ret' = NoError
    /\ UNCHANGED <<vec, pipes, wgCount, loopVarShared, validated, events>>
    /\ UNCHANGED <<syncVars, bldVars>>

(***************************************************************************)
(* ----------------------------- PART III -------------------------------- *)
(* The configuration builder.  A component name is the sequence of its     *)
(* dot-separated labels; a selector or an expression is the sequence of    *)
(* its characters, a label key or value counting as one character.         *)
(***************************************************************************)
KubernetesSourceType == "kubernetes_logs"
BlackholeSinkType == "blackhole"
InternalMetricsSourceType == "internal_metrics"
InternalMetricsSourceName == <<"internalMetricsSource">>
InternalMetricsSinkType == "prometheus_exporter"
InternalMetricsSinkName == <<"internalMetricsSink">>
MergedKubernetesSourceName == <<"mergedKubernetesSource">>
MergedSourceTransformName == <<"merged">>
RouteTransformType == "route"
DefaultSourceName == <<"defaultSource">>
PodSelectorType == "pod_labels"
NamespaceSelectorType == "ns_labels"

\* the errors of getComponents
PipelineScopeError == "PipelineScopeError"

\* Options == nil, and options that are set
NilOptions == "nil"
SomeOptions == "set"

\* the empty string
EmptyString == <<>>

\* the labels that occur in names, in the byte order of their strings
AtomOrder ==
    <<"", "1001", "2002", "defaultSink", "defaultSource", "internalMetricsSink",
      "internalMetricsSource", "merged", "mergedKubernetesSource", "n1", "n2",
      "n3", "out1", "out2", "out3", "out4", "out5", "out6", "p", "q", "r", "src",
      "tr">>

AtomRank(a) == CHOOSE i \in 1 .. Len(AtomOrder) : AtomOrder[i] = a

\* a < b for two names as Go compares their strings
RECURSIVE StringLess(_, _)
StringLess(a, b) ==
    IF a = <<>> THEN b # <<>>
    ELSE IF b = <<>> THEN FALSE
    ELSE IF a[1] = b[1] THEN StringLess(Tail(a), Tail(b))
    ELSE AtomRank(a[1]) < AtomRank(b[1])

\* sort.Strings
RECURSIVE SortStrings(_)
SortStrings(s) ==
    IF s = <<>> THEN <<>>
    ELSE LET m == CHOOSE i \in 1 .. Len(s) :
                    \A j \in 1 .. Len(s) : ~StringLess(s[j], s[i])
             rest == [k \in 1 .. Len(s) - 1 |-> IF k < m THEN s[k] ELSE s[k + 1]]
         IN <<s[m]>> \o SortStrings(rest)

\* strings.Split(s, sep), for a separator that is not empty
RECURSIVE Split(_, _)
Split(s, sep) ==
    LET n == Len(sep)
        at == {i \in 1 .. Len(s) - n + 1 : SubSeq(s, i, i + n - 1) = sep}
    IN IF at = {} THEN <<s>>
       ELSE LET i == CHOOSE k \in at : \A j \in at : k <= j
            IN <<SubSeq(s, 1, i - 1)>> \o Split(SubSeq(s, i + n, Len(s)), sep)

\* strings.TrimSuffix(s, suffix)
TrimSuffix(s, suffix) ==
    IF Len(s) >= Len(suffix) /\ SubSeq(s, Len(s) - Len(suffix) + 1, Len(s)) = suffix
    THEN SubSeq(s, 1, Len(s) - Len(suffix))
    ELSE s

\* the characters of generated expressions that are not label keys or values
Quote == "\""
AndAnd == "&&"

\* a variant that splits a clause at "=" before it looks for "!="
formatVrlSelector_EqualsFirst(label) ==
    LET l == Split(label, <<"=">>)
    IN IF Len(l) = 2
       THEN <<Quote>> \o l[1] \o <<Quote, " ", "=", "=", " ", Quote>> \o l[2] \o <<Quote>>
       ELSE label

\* formatVrlSelector(label)
formatVrlSelector(label) ==
    LET ne == Split(label, <<"!", "=">>)
        eq == Split(label, <<"=">>)
    IN IF Len(ne) = 2
       THEN <<Quote>> \o ne[1] \o <<Quote, " ", "!", "=", " ", Quote>> \o ne[2] \o <<Quote>>
       ELSE IF Len(eq) # 2 THEN label
       ELSE <<Quote>> \o eq[1] \o <<Quote, " ", "=", "=", " ", Quote>> \o eq[2] \o <<Quote>>

\* the path a clause of each selector type is printed under
LabelPath(selectorType) ==
    IF selectorType = PodSelectorType THEN <<".kubernetes.pod_labels.">>
    ELSE IF selectorType = NamespaceSelectorType
         THEN <<".kubernetes.namespace_labels.">>
    ELSE <<>>

\* generateVrlFilter: the buffer after the loop over the labels
RECURSIVE VrlBuffer(_, _)
VrlBuffer(labels, selectorType) ==
    IF labels = <<>> THEN <<>>
    ELSE (IF selectorType \in {PodSelectorType, NamespaceSelectorType}
          THEN LabelPath(selectorType) \o formatVrlSelector(Head(labels)) \o <<AndAnd>>
          ELSE <<>>)
         \o VrlBuffer(Tail(labels), selectorType)

\* generateVrlFilter(selector, selectorType)
generateVrlFilter(selector, selectorType) ==
    TrimSuffix(VrlBuffer(Split(selector, <<",">>), selectorType), <<AndAnd>>)

\* the route expression mergeKubernetesSources stores for a source
RouteExpression(source) ==
    generateVrlFilter(source.ExtraLabelSelector, PodSelectorType)
      \o <<AndAnd>>
      \o generateVrlFilter(source.ExtraNamespaceLabelSelector, NamespaceSelectorType)

\* the structs Source, Transform and Sink
Source(name, type, nsSelector, fieldSelector, labelSelector, options) ==
    [Name |-> name, Type |-> type, ExtraNamespaceLabelSelector |-> nsSelector,
     ExtraFieldSelector |-> fieldSelector, ExtraLabelSelector |-> labelSelector,
     Options |-> options]

Transform(name, type, inputs, routes) ==
    [Name |-> name, Type |-> type, Inputs |-> inputs, Route |-> routes]

Sink(name, type, inputs, optionsHash) ==
    [Name |-> name, Type |-> type, Inputs |-> inputs, OptionsHash |-> optionsHash]

\* a transform that has no route table
NoRoutes == <<>>

sourceDefault ==
    Source(DefaultSourceName, KubernetesSourceType, EmptyString, EmptyString,
           EmptyString, NilOptions)

internalMetricSource ==
    Source(InternalMetricsSourceName, InternalMetricsSourceType, EmptyString,
           EmptyString, EmptyString, NilOptions)

\* its OptionsHash is never computed, so it is the empty string
sinkDefault == Sink(<<"defaultSink">>, BlackholeSinkType, <<DefaultSourceName>>, "")

internalMetricsExporter ==
    Sink(InternalMetricsSinkName, InternalMetricsSinkType,
         <<InternalMetricsSourceName>>, "")

\* the scope kinds of a pipeline
ClusterPipelineKind == "ClusterVectorPipeline"
NamespacedPipelineKind == "VectorPipeline"

\* k8s.NamespaceNameToLabel(namespace)
NamespaceNameToLabel(ns) == <<"kubernetes.io/metadata.name", "=", ns>>

\* addPrefix(namespace, name, key): <namespace>.<pipeline-name>.<local-key>
addPrefix(ns, name, key) == <<ns, name, key>>

\* fmt.Sprint(hash.Get(optbyte)) of a sink's serialized options
OptionsHashOf(options) == IF options = "o1" THEN "1001" ELSE "2002"

\* the values of OptionsHash
SinkHashes == {"", "1001", "2002"}

\* getSources(pipeline, nil): the decoded sources under their prefixed names
getSources(p) ==
    [k \in 1 .. Len(p.Sources) |->
        Source(addPrefix(p.Namespace, p.Name, p.Sources[k].Key), p.Sources[k].Type,
               p.Sources[k].ExtraNamespaceLabelSelector,
               p.Sources[k].ExtraFieldSelector, p.Sources[k].ExtraLabelSelector,
               p.Sources[k].Options)]

\* getTransforms(pipeline)
getTransforms(p) ==
    [k \in 1 .. Len(p.Transforms) |->
        Transform(addPrefix(p.Namespace, p.Name, p.Transforms[k].Key),
                  p.Transforms[k].Type,
                  [n \in 1 .. Len(p.Transforms[k].Inputs) |->
                      addPrefix(p.Namespace, p.Name, p.Transforms[k].Inputs[n])],
                  NoRoutes)]

\* getSinks(pipeline)
getSinks(p) ==
    [k \in 1 .. Len(p.Sinks) |->
        Sink(addPrefix(p.Namespace, p.Name, p.Sinks[k].Key), p.Sinks[k].Type,
             [n \in 1 .. Len(p.Sinks[k].Inputs) |->
                 addPrefix(p.Namespace, p.Name, p.Sinks[k].Inputs[n])],
             OptionsHashOf(p.Sinks[k].Options))]

\* a variant that leaves an unset namespace selector of a namespaced
\* pipeline's source unset
DefaultedSelector_Never(p, source) == source.ExtraNamespaceLabelSelector

\* getComponents, lines 413-417: the source's namespace selector after the
\* defaulting
DefaultedSelector(p, source) ==
    IF /\ source.Type = KubernetesSourceType
       /\ p.Kind # ClusterPipelineKind
       /\ source.ExtraNamespaceLabelSelector = EmptyString
    THEN NamespaceNameToLabel(p.Namespace)
    ELSE source.ExtraNamespaceLabelSelector

\* a variant that applies the type check to every pipeline
SourceError_AllKinds(p, source) ==
    IF source.Type # KubernetesSourceType THEN PipelineTypeError
    ELSE IF p.Kind # ClusterPipelineKind
            /\ source.ExtraNamespaceLabelSelector # EmptyString
            /\ source.ExtraNamespaceLabelSelector # NamespaceNameToLabel(p.Namespace)
         THEN PipelineScopeError
    ELSE NoError

\* getComponents, lines 418-430: the error a (defaulted) source ends the
\* build with
SourceError(p, source) ==
    IF p.Kind = ClusterPipelineKind THEN NoError
    ELSE IF source.Type # KubernetesSourceType THEN PipelineTypeError
    ELSE IF source.Type = InternalMetricsSourceType THEN PipelineTypeError
    ELSE IF /\ source.ExtraNamespaceLabelSelector # EmptyString
            /\ source.ExtraNamespaceLabelSelector # NamespaceNameToLabel(p.Namespace)
         THEN PipelineScopeError
    ELSE NoError

\* what getComponents returns with an error
NoComponents(err) ==
    [sources |-> <<>>, transforms |-> <<>>, sinks |-> <<>>, err |-> err]

\* getComponents, lines 409-432: the loop over one pipeline's sources
RECURSIVE AppendSources(_, _, _)
AppendSources(p, pipelineSources, acc) ==
    IF pipelineSources = <<>> THEN acc
    ELSE LET source == [Head(pipelineSources) EXCEPT
                          !.ExtraNamespaceLabelSelector =
                              DefaultedSelector(p, Head(pipelineSources))]
             err == SourceError(p, source)
         IN IF err # NoError THEN NoComponents(err)
            ELSE AppendSources(p, Tail(pipelineSources),
                               [acc EXCEPT !.sources = Append(@, source)])

\* getComponents: the loop over the pipelines
RECURSIVE getComponentsFrom(_, _)
getComponentsFrom(ps, acc) ==
    IF ps = <<>> THEN acc
    ELSE LET p == Head(ps)
             withSources == AppendSources(p, getSources(p), acc)
         IN IF withSources.err # NoError THEN withSources
            ELSE getComponentsFrom(Tail(ps),
                    [withSources EXCEPT !.transforms = @ \o getTransforms(p),
                                        !.sinks = @ \o getSinks(p)])

\* getComponents()
getComponents(ps) == getComponentsFrom(ps, NoComponents(NoError))

\* isExporterSinkExists(sinks)
isExporterSinkExists(sinks) ==
    \E k \in 1 .. Len(sinks) : sinks[k].Type = InternalMetricsSinkType

\* generateVectorConfig, lines 372-386: the internal-metrics pair and the
\* defaults
WithDefaults(c, internalMetrics) ==
    LET inject == internalMetrics /\ ~isExporterSinkExists(c.sinks)
        sources == IF inject THEN Append(c.sources, internalMetricSource)
                   ELSE c.sources
        sinks == IF inject THEN Append(c.sinks, internalMetricsExporter)
                 ELSE c.sinks
    IN [Sources |-> IF Len(sources) = 0 THEN <<sourceDefault>> ELSE sources,
        Transforms |-> c.transforms,
        Sinks |-> IF Len(sinks) = 0 THEN <<sinkDefault>> ELSE sinks]

\* a variant that retires a source whatever its field selector
Retired_IgnoreFieldSelector(source) ==
    /\ source.Type = KubernetesSourceType
    /\ source.ExtraNamespaceLabelSelector # EmptyString
    /\ source.ExtraLabelSelector # EmptyString
    /\ source.Options = NilOptions

\* mergeKubernetesSources, lines 600-601: the source is taken out and routed
Retired(source) ==
    /\ source.Type = KubernetesSourceType
    /\ source.ExtraFieldSelector = EmptyString
    /\ source.ExtraNamespaceLabelSelector # EmptyString
    /\ source.ExtraLabelSelector # EmptyString
    /\ source.Options = NilOptions

\* mergeKubernetesSources, lines 599-607: the sources that stay
RECURSIVE NotRetiredSources(_)
NotRetiredSources(sources) ==
    IF sources = <<>> THEN <<>>
    ELSE (IF Retired(Head(sources)) THEN <<>> ELSE <<Head(sources)>>)
         \o NotRetiredSources(Tail(sources))

\* mergeKubernetesSources, lines 598-607: the routes map
Routes(sources) ==
    LET names == {sources[k].Name : k \in {j \in 1 .. Len(sources) : Retired(sources[j])}}
    IN [n \in names |->
          RouteExpression(sources[CHOOSE k \in 1 .. Len(sources) :
                                    /\ sources[k].Name = n
                                    /\ Retired(sources[k])
                                    /\ \A j \in k + 1 .. Len(sources) :
                                          ~(sources[j].Name = n /\ Retired(sources[j]))])]

\* mergeKubernetesSources, lines 621-639: the inputs with the names of the
\* routed sources replaced by the routes' outputs
RewriteInputs(inputs, routes) ==
    [n \in 1 .. Len(inputs) |->
        IF inputs[n] \in DOMAIN routes THEN MergedSourceTransformName \o inputs[n]
        ELSE inputs[n]]

\* mergeKubernetesSources(config)
mergeKubernetesSources(c) ==
    LET routes == Routes(c.Sources)
        mergedSource == NotRetiredSources(c.Sources)
    IN IF DOMAIN routes = {} THEN c
       ELSE [Sources |-> Append(mergedSource,
                                Source(MergedKubernetesSourceName, KubernetesSourceType,
                                       EmptyString, EmptyString, EmptyString,
                                       NilOptions)),
             Transforms |->
                 Append([k \in 1 .. Len(c.Transforms) |->
                            [c.Transforms[k] EXCEPT !.Inputs = RewriteInputs(@, routes)]],
                        Transform(MergedSourceTransformName, RouteTransformType,
                                  <<MergedKubernetesSourceName>>, routes)),
             Sinks |-> [k \in 1 .. Len(c.Sinks) |->
                          [c.Sinks[k] EXCEPT !.Inputs = RewriteInputs(@, routes)]]]

\* mergeSyncs, lines 656-658: the canonical sink after it took in a later one
Absorb(first, sink) ==
    [first EXCEPT !.Name = <<first.OptionsHash>>,
                  !.Inputs = SortStrings(first.Inputs \o sink.Inputs)]

\* a variant without the continue: the later sink is also kept
Merged_NoContinue(mergedSinks, at, sink) ==
    Append([mergedSinks EXCEPT ![at] = Absorb(@, sink)], sink)

\* mergeSyncs, lines 655-659: mergedSinks after the sink at place at took in
\* the later sink, which is dropped
Merged(mergedSinks, at, sink) ==
    [mergedSinks EXCEPT ![at] = Absorb(@, sink)]

\* a variant that merges into the sink of the same hash whatever its type
SameGroup_AnyType(first, sink) == TRUE

\* mergeSyncs, line 654
SameGroup(first, sink) == sink.Type = first.Type

\* mergeSyncs, lines 651-664: the loop; uniqOpts holds, for each hash, the
\* position in mergedSinks of the sink it points to (0 for none)
RECURSIVE mergeSyncsLoop(_, _, _)
mergeSyncsLoop(sinks, uniqOpts, mergedSinks) ==
    IF sinks = <<>> THEN mergedSinks
    ELSE LET sink == Head(sinks)
             at == uniqOpts[sink.OptionsHash]
         IN IF at # 0 /\ SameGroup(mergedSinks[at], sink)
            THEN mergeSyncsLoop(Tail(sinks), uniqOpts, Merged(mergedSinks, at, sink))
            ELSE mergeSyncsLoop(Tail(sinks),
                    [uniqOpts EXCEPT ![sink.OptionsHash] = Len(mergedSinks) + 1],
                    Append(mergedSinks, sink))

\* mergeSyncs(config): the sinks it leaves in the configuration
mergeSyncs(sinks) ==
    LET mergedSinks == mergeSyncsLoop(sinks, [h \in SinkHashes |-> 0], <<>>)
    IN IF Len(mergedSinks) > 0 THEN mergedSinks ELSE sinks

\* cfgToMap, lines 552-572: a name-keyed map of components; a later
\* component replaces an earlier one of the same name
NameKeyed(components) ==
    [n \in {components[k].Name : k \in 1 .. Len(components)} |->
        components[CHOOSE k \in 1 .. Len(components) :
                      /\ components[k].Name = n
                      /\ \A j \in k + 1 .. Len(components) : components[j].Name # n]]

\* cfgToMap(config)
cfgToMap(c) ==
    [sources |-> NameKeyed(c.Sources),
     transforms |-> NameKeyed(c.Transforms),
     sinks |-> NameKeyed(c.Sinks)]

\* the configuration and the map before there is one
NoConfig == [Sources |-> <<>>, Transforms |-> <<>>, Sinks |-> <<>>]
NoMap == [sources |-> <<>>, transforms |-> <<>>, sinks |-> <<>>]
NoSnap == [components |-> NoConfig, defaults |-> NoConfig, sourcesMerged |-> NoConfig]

\* GetByteConfig, lines 352-362, with generateVectorConfig, lines 364-401:
\* the error and the map that is serialized
BuildConfig(ps, settings) ==
    LET c == getComponents(ps)
        defaulted == WithDefaults(c, settings.InternalMetrics)
        sourcesMerged == IF settings.MergeKubernetesSources
                         THEN mergeKubernetesSources(defaulted)
                         ELSE defaulted
        sinksMerged == IF settings.MergeSinks
                       THEN [sourcesMerged EXCEPT !.Sinks = mergeSyncs(@)]
                       ELSE sourcesMerged
    IN IF c.err # NoError THEN [err |-> c.err, cfgMap |-> NoMap]
       ELSE [err |-> NoError, cfgMap |-> cfgToMap(sinksMerged)]

\* no second run yet
NotRebuilt == [err |-> NoError, cfgMap |-> NoMap, pipelines |-> <<>>, run |-> FALSE]

\* getSources, getTransforms, getSinks, lines 472, 497, 523: a range over a
\* Go map visits its entries in an order that differs from run to run; the
\* orders in which the entries of s may be visited
Orders(s) ==
    {[k \in DOMAIN s |-> s[f[k]]] :
        f \in {g \in [DOMAIN s -> DOMAIN s] :
                  \A a, b \in DOMAIN s : g[a] = g[b] => a = b}}

\* the same pipeline with its three maps visited in any order
Traversals(p) ==
    {[p EXCEPT !.Sources = so, !.Transforms = tr, !.Sinks = si] :
        so \in Orders(p.Sources), tr \in Orders(p.Transforms),
        si \in Orders(p.Sinks)}

\* the same list of pipelines, each visited in any order
RECURSIVE TraversalsOf(_)
TraversalsOf(ps) ==
    IF ps = <<>> THEN {<<>>}
    ELSE {<<p>> \o rest : p \in Traversals(Head(ps)), rest \in TraversalsOf(Tail(ps))}

(***************************************************************************)
(* The inputs of Part III.                                                 *)
(***************************************************************************)
\* the names and namespaces of the pipelines, by their place in the list
PipelineNames == <<"p", "q", "r">>
PipelineNamespaces == <<"n1", "n2", "n3">>

\* a pod-label selector, a field selector and the label of another namespace
AppSelector == <<"app", "=", "foo">>
FieldSelector == <<"metadata.name", "=", "x">>
ForeignNamespaceLabel == NamespaceNameToLabel("kube-system")

\* a pipeline's raw source under key "src"
RawSource(type, nsSelector, fieldSelector, labelSelector, options) ==
    [Key |-> "src", Type |-> type, ExtraNamespaceLabelSelector |-> nsSelector,
     ExtraFieldSelector |-> fieldSelector, ExtraLabelSelector |-> labelSelector,
     Options |-> options]

\* the sources a pipeline in namespace ns may declare: cluster-log sources
\* with the namespace selector unset, its own or another's, with and without
\* pod selector, field selector and options, and an internal-metrics source
RawSources(ns) ==
    {RawSource(KubernetesSourceType, n, EmptyString, l, NilOptions) :
        n \in {EmptyString, NamespaceNameToLabel(ns), ForeignNamespaceLabel},
        l \in {EmptyString, AppSelector}}
    \cup {RawSource(KubernetesSourceType, NamespaceNameToLabel(ns), FieldSelector,
                    AppSelector, NilOptions),
          RawSource(KubernetesSourceType, NamespaceNameToLabel(ns), EmptyString,
                    AppSelector, SomeOptions),
          RawSource(InternalMetricsSourceType, EmptyString, EmptyString,
                    EmptyString, NilOptions)}

RawTransform == [Key |-> "tr", Type |-> "remap", Inputs |-> <<"src">>]

RawSink(key, type, input, options) ==
    [Key |-> key, Type |-> type, Inputs |-> <<input>>, Options |-> options]

\* the sinks a pipeline may declare, all reading from the component input
RawSinkLists(input) ==
    {<<>>,
     <<RawSink("out1", BlackholeSinkType, input, "o1")>>,
     <<RawSink("out1", BlackholeSinkType, input, "o1"),
       RawSink("out2", BlackholeSinkType, input, "o1")>>,
     <<RawSink("out1", "console", input, "o1"),
       RawSink("out2", "console", input, "o1")>>,
     <<RawSink("out1", BlackholeSinkType, input, "o1"),
       RawSink("out2", "console", input, "o1")>>,
     <<RawSink("out1", InternalMetricsSinkType, input, "o2")>>}

Pipeline(scope, ns, name, sources, transforms, sinks) ==
    [Kind |-> scope, Namespace |-> IF scope = ClusterPipelineKind THEN "" ELSE ns,
     Name |-> name, Sources |-> sources, Transforms |-> transforms, Sinks |-> sinks]

\* the pipelines that may stand at place k of the list: an empty one; each
\* source with one sink, cluster-scoped and namespaced; and a mergeable source
\* with each list of sinks, with and without a transform in between
PipelinesAt(k) ==
    LET ns == PipelineNamespaces[k]
        name == PipelineNames[k]
        mergeable == RawSource(KubernetesSourceType, NamespaceNameToLabel(ns),
                               EmptyString, AppSelector, NilOptions)
    IN {Pipeline(ClusterPipelineKind, ns, name, <<>>, <<>>, <<>>)}
       \cup {Pipeline(scope, ns, name, <<s>>, <<>>,
                      <<RawSink("out1", BlackholeSinkType, "src", "o1")>>) :
                scope \in {ClusterPipelineKind, NamespacedPipelineKind},
                s \in RawSources(ns)}
       \cup {Pipeline(ClusterPipelineKind, ns, name, <<mergeable>>, <<>>, sinks) :
                sinks \in RawSinkLists("src")}
       \cup {Pipeline(ClusterPipelineKind, ns, name, <<mergeable>>,
                      <<RawTransform>>, sinks) :
                sinks \in RawSinkLists("tr")}

\* the lists of n pipelines
RECURSIVE PipelineLists(_)
PipelineLists(n) ==
    IF n = 0 THEN {<<>>}
    ELSE {Append(ps, p) : ps \in PipelineLists(n - 1), p \in PipelinesAt(n)}

\* the agent's settings
AgentSettings ==
    [InternalMetrics : BOOLEAN, MergeKubernetesSources : BOOLEAN,
     MergeSinks : BOOLEAN]

\* the names of the sinks of a list handed to mergeSyncs, by place
SinkKeys == <<"out1", "out2", "out3", "out4", "out5", "out6">>

\* the sinks that may stand at place k of such a list
SinksAt(k) ==
    {Sink(addPrefix("n1", "p", SinkKeys[k]), type, <<addPrefix("n1", "p", input)>>, h) :
        type \in {BlackholeSinkType, "console"},
        input \in {"src", "tr"},
        h \in {"1001", "2002"}}

\* the lists of n sinks
RECURSIVE SinkLists(_)
SinkLists(n) ==
    IF n = 0 THEN {<<>>}
    ELSE {Append(ss, s) : ss \in SinkLists(n - 1), s \in SinksAt(n)}

\* a clause of a label selector: key=value or key!=value
Clauses == [key : {"app", "team"}, op : {"=", "!="}, value : {"foo", "bar"}]

\* the lists of n clauses
RECURSIVE ClauseLists(_)
ClauseLists(n) ==
    IF n = 0 THEN {<<>>}
    ELSE {Append(cs, c) : cs \in ClauseLists(n - 1), c \in Clauses}

\* the namespace-label selectors of a source: one clause, or one clause and
\* a second one on the team label
NamespaceSelectors ==
    {<<c>> : c \in Clauses}
    \cup {<<c, [key |-> "team", op |-> o, value |-> "bar"]>> :
             c \in {x \in Clauses : x.key = "app"}, o \in {"=", "!="}}

\* the text of a clause and of a selector: its clauses joined by commas
ClauseText(c) ==
    <<c.key>> \o (IF c.op = "=" THEN <<"=">> ELSE <<"!", "=">>) \o <<c.value>>

RECURSIVE SelectorText(_)
SelectorText(cs) ==
    IF cs = <<>> THEN <<>>
    ELSE IF Len(cs) = 1 THEN ClauseText(cs[1])
    ELSE ClauseText(cs[1]) \o <<",">> \o SelectorText(Tail(cs))

\* the labels of a pod or of a namespace: for each key a value or none
LabelSets == [{"app", "team"} -> {"foo", "bar", "none"}]

Records == [pod : LabelSets, ns : LabelSets]

NoRecord == [none |-> TRUE]

(***************************************************************************)
(* What a route expression and a label selector select.                    *)
(***************************************************************************)
\* a quoted string literal of an expression, and what is between the quotes
IsLiteral(text) ==
    /\ Len(text) >= 2
    /\ text[1] = Quote
    /\ text[Len(text)] = Quote
    /\ \A k \in 2 .. Len(text) - 1 : text[k] # Quote

LiteralBody(text) == SubSeq(text, 2, Len(text) - 1)

\* the value of the label the literal names: none if there is no such label
LabelValue(labels, body) ==
    IF Len(body) = 1 /\ body[1] \in DOMAIN labels THEN labels[body[1]] ELSE "none"

\* the label has the value the literal denotes
HasValue(labels, key, value) ==
    /\ LabelValue(labels, key) # "none"
    /\ Len(value) = 1
    /\ LabelValue(labels, key) = value[1]

\* the value of one comparison of a route expression on a record: a path
\* into the record's labels, compared with a literal by == or !=
EvalPredicate(pred, rec) ==
    IF pred = <<>>
       \/ Head(pred) \notin {".kubernetes.pod_labels.", ".kubernetes.namespace_labels."}
    THEN "error"
    ELSE LET labels == IF Head(pred) = ".kubernetes.pod_labels." THEN rec.pod
                       ELSE rec.ns
             eq == Split(Tail(pred), <<" ", "=", "=", " ">>)
             ne == Split(Tail(pred), <<" ", "!", "=", " ">>)
         IN IF Len(eq) = 2 /\ IsLiteral(eq[1]) /\ IsLiteral(eq[2])
            THEN IF HasValue(labels, LiteralBody(eq[1]), LiteralBody(eq[2]))
                 THEN "true" ELSE "false"
            ELSE IF Len(ne) = 2 /\ IsLiteral(ne[1]) /\ IsLiteral(ne[2])
            THEN IF HasValue(labels, LiteralBody(ne[1]), LiteralBody(ne[2]))
                 THEN "false" ELSE "true"
            ELSE "error"

\* the value of a route expression, a conjunction of comparisons
EvalRoute(expr, rec) ==
    LET preds == Split(expr, <<AndAnd>>)
        values == {EvalPredicate(preds[k], rec) : k \in 1 .. Len(preds)}
    IN IF "error" \in values THEN "error"
       ELSE IF values = {"true"} THEN "true"
       ELSE "false"

\* a label selector of clauses key=value and key!=value selects the labels
SelectorMatches(cs, labels) ==
    \A k \in 1 .. Len(cs) :
        IF cs[k].op = "=" THEN labels[cs[k].key] = cs[k].value
        ELSE labels[cs[k].key] # cs[k].value

(***************************************************************************)
(* The steps of Part III.                                                  *)
(***************************************************************************)
builderVars == <<pipelines, agent, bpc, config, buildErr, snap, cfgMap, rebuilt>>
mergeVars == <<msIn, msOnce, msTwice, msPc>>
filterVars == <<podSel, nsSel, route, record, fpc>>

\* generateVectorConfig, lines 367-370
BuildComponents ==
    /\ bpc = "start"
    /\ LET c == getComponents(pipelines)
       IN IF c.err # NoError
          THEN /\ bpc' = "failed"
               /\ buildErr' = c.err
               /\ UNCHANGED <<config, snap>>
          ELSE /\ bpc' = "defaults"
               /\ config' = [Sources |-> c.sources, Transforms |-> c.transforms,
                             Sinks |-> c.sinks]
               /\ snap' = [snap EXCEPT !.components = config']
               /\ UNCHANGED buildErr
    /\ UNCHANGED <<pipelines, agent, cfgMap, rebuilt>>
    /\ UNCHANGED <<syncVars, orchVars, mergeVars, filterVars>>

\* generateVectorConfig, lines 372-386
BuildDefaults ==
    /\ bpc = "defaults"
    /\ config' = WithDefaults([sources |-> config.Sources,
                               transforms |-> config.Transforms,
                               sinks |-> config.Sinks], agent.InternalMetrics)
    /\ snap' = [snap EXCEPT !.defaults = config']
    /\ bpc' = "mergeSources"
    /\ UNCHANGED <<pipelines, agent, buildErr, cfgMap, rebuilt>>
    /\ UNCHANGED <<syncVars, orchVars, mergeVars, filterVars>>

\* generateVectorConfig, lines 388-392
BuildMergeSources ==
    /\ bpc = "mergeSources"
    /\ config' = IF agent.MergeKubernetesSources THEN mergeKubernetesSources(config)
                 ELSE config
    /\ snap' = [snap EXCEPT !.sourcesMerged = config']
    /\ bpc' = "mergeSinks"
    /\ UNCHANGED <<pipelines, agent, buildErr, cfgMap, rebuilt>>
    /\ UNCHANGED <<syncVars, orchVars, mergeVars, filterVars>>

\* generateVectorConfig, lines 394-400
BuildMergeSinks ==
    /\ bpc = "mergeSinks"
    /\ config' = IF agent.MergeSinks THEN [config EXCEPT !.Sinks = mergeSyncs(@)]
                 ELSE config
    /\ bpc' = "serialize"
    /\ UNCHANGED <<pipelines, agent, buildErr, snap, cfgMap, rebuilt>>
    /\ UNCHANGED <<syncVars, orchVars, mergeVars, filterVars>>

\* GetByteConfig, line 357: vectorConfigToByte and its cfgToMap
BuildSerialize ==
    /\ bpc = "serialize"
    /\ cfgMap' = cfgToMap(config)
    /\ bpc' = "done"
    /\ UNCHANGED <<pipelines, agent, config, buildErr, snap, rebuilt>>
    /\ UNCHANGED <<syncVars, orchVars, mergeVars, filterVars>>

\* GetByteConfig is called again for the same pipelines and settings, the
\* maps being visited in an order of their own
BuildAgain ==
    /\ bpc \in {"done", "failed"}
    /\ ~rebuilt.run
    /\ \E ps \in TraversalsOf(pipelines) :
          rebuilt' = [err |-> BuildConfig(ps, agent).err,
                      cfgMap |-> BuildConfig(ps, agent).cfgMap,
                      pipelines |-> ps, run |-> TRUE]
    /\ UNCHANGED <<pipelines, agent, bpc, config, buildErr, snap, cfgMap>>
    /\ UNCHANGED <<syncVars, orchVars, mergeVars, filterVars>>

\* mergeSyncs applied to a list of sinks
MergeOnce ==
    /\ msPc = "start"
    /\ msOnce' = mergeSyncs(msIn)
    /\ msPc' = "once"
    /\ UNCHANGED <<msIn, msTwice>>
    /\ UNCHANGED <<syncVars, orchVars, builderVars, filterVars>>

\* mergeSyncs applied to its own result
MergeTwice ==
    /\ msPc = "once"
    /\ msTwice' = mergeSyncs(msOnce)
    /\ msPc' = "twice"
    /\ UNCHANGED <<msIn, msOnce>>
    /\ UNCHANGED <<syncVars, orchVars, builderVars, filterVars>>

\* the source that carries the two selectors
SelectorSource ==
    Source(addPrefix("n1", "p", "src"), KubernetesSourceType, SelectorText(nsSel),
           EmptyString, SelectorText(podSel), NilOptions)

\* mergeKubernetesSources, line 602, for that source
GenerateRoute ==
    /\ fpc = "start"
    /\ Retired(SelectorSource)
    /\ route' = RouteExpression(SelectorSource)
    /\ fpc' = "generated"
    /\ UNCHANGED <<podSel, nsSel, record>>
    /\ UNCHANGED <<syncVars, orchVars, builderVars, mergeVars>>

\* a record arrives at the routing transform
EvaluateRoute ==
    /\ fpc = "generated"
    /\ \E r \in Records : record' = r
    /\ fpc' = "evaluated"
    /\ UNCHANGED <<podSel, nsSel, route>>
    /\ UNCHANGED <<syncVars, orchVars, builderVars, mergeVars>>

\* Part III at rest
BuildIdle ==
    /\ pipelines = <<>>
    /\ agent = [InternalMetrics |-> FALSE, MergeKubernetesSources |-> FALSE,
                MergeSinks |-> FALSE]
    /\ bpc = "idle"
    /\ config = NoConfig
    /\ buildErr = NoError
    /\ snap = NoSnap
    /\ cfgMap = NoMap
    /\ rebuilt = NotRebuilt

MergeIdle ==
    /\ msIn = <<>>
    /\ msOnce = <<>>
    /\ msTwice = <<>>
    /\ msPc = "idle"

FilterIdle ==
    /\ podSel = <<>>
    /\ nsSel = <<>>
    /\ route = <<>>
    /\ record = NoRecord
    /\ fpc = "idle"

BldIdle == BuildIdle /\ MergeIdle /\ FilterIdle

(***************************************************************************)
(* Specifications                                                          *)
(***************************************************************************)
\* Part I at rest
SyncIdle ==
    /\ kind = "Service"
    /\ cluster = NoObject
    /\ revision = 0
    /\ extWrites = 0
    /\ syncPc = "idle"
    /\ desired = ZeroObject
    /\ existing = ZeroObject
    /\ fetched = NoObject
    /\ createErr = NoError
    /\ syncErr = NoError
    /\ opLog = <<>>
    /\ submitted = NoObject
    /\ staleSinceGet = FALSE
    /\ calls = 0
    /\ history = NoHistory

\* Part II before the first request: the instances of live are there, with
\* no status yet; the others are gone
OrchInit(live) ==
    /\ vec = [i \in Instances |->
                IF i \in live THEN VecObject("present", 1, NilHash, "unset", "")
                ELSE VecObject("absent", 1, NilHash, "unset", "")]
    /\ pipes \in PipelineSets
    /\ wgCount = 0
    /\ loopVarShared \in (IF Cardinality(live) > 1 THEN BOOLEAN ELSE {FALSE})
    /\ pc = "idle"
    /\ req = ""
    /\ chanClosed = FALSE
    /\ elapsed = 0
    /\ gateResult = "pending"
    /\ mem = <<>>
    /\ work = <<>>
    /\ cur = 0
    /\ byteConfig = 0
    /\ cfgHash = 0
    /\ reason = ""
    /\ trace = <<>>
    /\ callErr = NoError
    /\ ret = NoError
    /\ validated = [i \in Instances |-> {}]
    /\ events = 0

\* Part II at rest
OrchIdle ==
    /\ OrchInit({"v1"})
    /\ pipes = 1

SyncInit ==
    /\ OrchIdle
    /\ BldIdle
    /\ kind \in Kinds
    /\ cluster = NoObject
    /\ revision = 0
    /\ extWrites = 0
    /\ syncPc = "idle"
    /\ desired = ZeroObject
    /\ existing = ZeroObject
    /\ fetched = NoObject
    /\ createErr = NoError
    /\ syncErr = NoError
    /\ opLog = <<>>
    /\ submitted = NoObject
    /\ staleSinceGet = FALSE
    /\ calls = 0
    /\ history = NoHistory

SyncNext ==
    \/ SyncStart
    \/ SyncCreate
    \/ SyncGet
    \/ SyncUpdate
    \/ SyncReturn
    \/ ExternalCreate
    \/ ExternalModify
    \/ ExternalDelete

SyncSpec == SyncInit /\ [][SyncNext]_vars

Init == SyncIdle /\ OrchInit({"v1"}) /\ BldIdle

Next ==
    \/ \E r \in Instances \cup {""} : Trigger(r)
    \/ WaiterWake
    \/ Tick
    \/ GateReturn
    \/ Lookup
    \/ Build
    \/ Validate
    \/ FailStatus
    \/ Apply
    \/ SetLastApplied
    \/ SetSuccess
    \/ AfterCall
    \/ ReconcileReturn
    \/ PipelineCheckStart
    \/ PipelineCheckDone
    \/ PipelineChange
    \/ ExternalStatusWrite
    \/ InstanceDelete

Spec == Init /\ [][Next]_vars

\* the scheduling the controller runs under: time passes and the timer
\* fires, a step of the running call is taken, and the caller keeps sending
\* the request for instance v1
Fairness ==
    /\ WF_vars(Tick)
    /\ WF_vars(GateReturn)
    /\ WF_vars(Lookup)
    /\ WF_vars(Build)
    /\ WF_vars(Validate)
    /\ WF_vars(FailStatus)
    /\ WF_vars(Apply)
    /\ WF_vars(SetLastApplied)
    /\ WF_vars(SetSuccess)
    /\ WF_vars(AfterCall)
    /\ WF_vars(ReconcileReturn)
    /\ SF_vars(Trigger("v1"))

LiveSpec == Init /\ [][Next]_vars /\ Fairness

\* the controller with two instances in the store, the range loop of
\* listVectorCustomResourceInstances having one variable per iteration or
\* one for the whole loop, as the toolchain that builds the code decides
FleetInit == SyncIdle /\ OrchInit(Instances) /\ BldIdle

FleetSpec == FleetInit /\ [][Next]_vars

\* the builder applied to every list of up to MaxPipelines pipelines under
\* every setting of the agent
BuildInit ==
    /\ SyncIdle
    /\ OrchIdle
    /\ MergeIdle
    /\ FilterIdle
    /\ pipelines \in UNION {PipelineLists(n) : n \in 0 .. MaxPipelines}
    /\ agent \in AgentSettings
    /\ bpc = "start"
    /\ config = NoConfig
    /\ buildErr = NoError
    /\ snap = NoSnap
    /\ cfgMap = NoMap
    /\ rebuilt = NotRebuilt

BuildNext ==
    \/ BuildComponents
    \/ BuildDefaults
    \/ BuildMergeSources
    \/ BuildMergeSinks
    \/ BuildSerialize

BuildSpec == BuildInit /\ [][BuildNext]_vars

\* the builder run twice on the same input
RebuildNext ==
    \/ BuildNext
    \/ BuildAgain

RebuildSpec == BuildInit /\ [][RebuildNext]_vars

\* mergeSyncs applied to every list of up to MaxSinks sinks
MergeInit ==
    /\ SyncIdle
    /\ OrchIdle
    /\ BuildIdle
    /\ FilterIdle
    /\ msIn \in UNION {SinkLists(n) : n \in 0 .. MaxSinks}
    /\ msOnce = <<>>
    /\ msTwice = <<>>
    /\ msPc = "start"

MergeNext ==
    \/ MergeOnce
    \/ MergeTwice

MergeSpec == MergeInit /\ [][MergeNext]_vars

\* the route of a source with every pod-label selector of up to MaxClauses
\* clauses and every namespace-label selector of one clause, on every record
FilterInit ==
    /\ SyncIdle
    /\ OrchIdle
    /\ BuildIdle
    /\ MergeIdle
    /\ podSel \in UNION {ClauseLists(n) : n \in 1 .. MaxClauses}
    /\ nsSel \in NamespaceSelectors
    /\ route = <<>>
    /\ record = NoRecord
    /\ fpc = "start"

FilterNext ==
    \/ GenerateRoute
    \/ EvaluateRoute

FilterSpec == FilterInit /\ [][FilterNext]_vars

(***************************************************************************)
(* Claims about the synchronizer.                                          *)
(***************************************************************************)
\* the fields each kind's Sync is to converge
MutableFields(k) ==
    CASE k \in {"Service", "DaemonSet", "StatefulSet"} -> {"spec", "labels"}
      [] k = "Secret" -> {"data", "labels"}
      [] k = "ClusterRole" -> {"rules"}
      [] k = "ClusterRoleBinding" -> {"roleRef", "subjects"}
      [] OTHER -> {}

Count(seq, x) == Cardinality({i \in DOMAIN seq : seq[i] = x})

GotExisting == syncPc \in {"update", "done"} /\ fetched # NoObject

MutableFieldsEqual == \A f \in MutableFields(kind) : fetched[f] = desired[f]

\* C1: when the object exists and its kind-specific mutable fields equal the
\* desired object's, the call issues no update, whatever resource version,
\* uid or status the fetched object carries.
C1_NoUpdateWhenMutableFieldsEqual ==
    (GotExisting /\ MutableFieldsEqual) => Count(opLog, "update") = 0

\* C2: when the object exists and a mutable field differs from desired, the
\* finished call has issued exactly one update, and the object it submitted
\* is the fetched one with exactly the mutable fields taken from desired.
C2_UpdateSubmitsFetchedWithMutableFields ==
    (syncPc = "done" /\ GotExisting /\ ~MutableFieldsEqual) =>
        /\ Count(opLog, "update") = 1
        /\ submitted # NoObject
        /\ \A f \in AllFields :
              submitted[f] = IF f \in MutableFields(kind) THEN desired[f]
                             ELSE fetched[f]

C2_Witness ==
    /\ syncPc = "done" /\ GotExisting /\ ~MutableFieldsEqual
    /\ kind = "DaemonSet"
    /\ submitted # NoObject
    /\ fetched.status # desired.status
    /\ fetched.annotations # desired.annotations
    /\ syncErr = NoError

\* C3: a call issues create, then get, then update, each at most once; get
\* only after create answered already-exists, update only after get
\* returned the object; any other create failure is returned as it is, and
\* a successful create returns nil, both with no get and no update.
C3_CallProtocol ==
    /\ opLog \in {<<>>, <<"create">>, <<"create", "get">>,
                  <<"create", "get", "update">>}
    /\ Len(opLog) >= 2 => createErr = AlreadyExists
    /\ Len(opLog) = 3 => fetched # NoObject
    /\ syncPc \in {"get", "update"} => createErr = AlreadyExists
    /\ (Len(opLog) >= 1 /\ createErr # AlreadyExists) =>
          /\ syncPc = "done"
          /\ opLog = <<"create">>
          /\ syncErr = createErr
    /\ (syncPc = "done" /\ fetched = NoObject) => Count(opLog, "update") = 0

C3_Witness ==
    /\ syncPc = "done"
    /\ kind = "Secret"
    /\ opLog = <<"create", "get", "update">>
    /\ syncErr = NoError

\* C4: when another writer has written the object between the call's get
\* and its update, the update carries the version the get observed, the
\* call ends there returning the store's conflict error (or the failure of
\* the request itself), and the store's object is left as the other writer
\* wrote it.
C4_ConflictSurfaced ==
    [][(syncPc = "update" /\ staleSinceGet /\ cluster # NoObject
            /\ syncPc' # syncPc) =>
          /\ submitted'.resourceVersion = fetched.resourceVersion
          /\ submitted'.uid = fetched.uid
          /\ syncErr' \in {Conflict} \cup OtherErrors
          /\ syncPc' = "done"
          /\ Count(opLog', "update") = 1
          /\ cluster' = cluster]_vars

C4_Witness ==
    /\ syncPc = "done"
    /\ kind = "Service"
    /\ staleSinceGet
    /\ cluster # NoObject
    /\ syncErr = Conflict
    /\ submitted.resourceVersion = fetched.resourceVersion
    /\ cluster.resourceVersion > fetched.resourceVersion

(***************************************************************************)
(* Claims about the reconcile pass.                                        *)
(***************************************************************************)
StepNames(t) == [k \in 1 .. Len(t) |-> t[k].step]

IsPrefix(a, b) == Len(a) <= Len(b) /\ \A k \in 1 .. Len(a) : a[k] = b[k]

HasStep(t, name) == \E k \in 1 .. Len(t) : t[k].step = name

\* the steps of a pass that validates, of one that does not, and of one
\* whose configuration is rejected
PassOrders ==
    {<<"build", "hash", "validate", "apply", "sethash", "setsuccess">>,
     <<"build", "hash", "apply", "sethash", "setsuccess">>,
     <<"build", "hash", "validate", "failstatus">>}

InCall == pc \in {"build", "validate", "failstatus", "apply", "sethash",
                  "setsuccess", "returned"}

\* the recorded last-applied hash is as the pass read it
HashAsRead == InCall /\ ~HasStep(trace, "sethash")

\* C5: the steps of a pass come in the order gate, build, hash-compare,
\* validate (only if the hash differs from the recorded one), apply, persist;
\* a failed step is the last one, so apply and persist never follow a failed
\* build or validate.
C5_StepOrder ==
    /\ [][(pc' # pc /\ pc' \in {"lookup", "build"}) =>
              \/ pc = "gate" /\ pc' = "lookup"
                    /\ gateResult' \in {"timeout", "completed"}
              \/ pc = "lookup" /\ pc' = "build"
                    /\ gateResult \in {"timeout", "completed"}
              \/ pc = "returned" /\ pc' = "build" /\ req = ""]_vars
    /\ [](\E o \in PassOrders : IsPrefix(StepNames(trace), o))
    /\ []((HasStep(trace, "validate") /\ HashAsRead) => v.hash # HashPtr(cfgHash))
    /\ [](\A k \in 1 .. Len(trace) :
            trace[k].res \in {"err", "invalid"} =>
              k = Len(trace) \/ (trace[k].res = "invalid" /\ k = Len(trace) - 1))
    /\ [](\A k \in 1 .. Len(trace) :
            (trace[k].step \in {"build", "validate"} /\ trace[k].res # "ok") =>
              ~(\E j \in 1 .. Len(trace) :
                    trace[j].step \in {"apply", "sethash", "setsuccess"}))

C5_Witness ==
    /\ pc = "returned"
    /\ StepNames(trace) = <<"build", "hash", "validate", "apply", "sethash",
                            "setsuccess">>
    /\ \A k \in 1 .. Len(trace) : trace[k].res \in {"ok", "changed"}

ValidatorInvoked == pc = "validate" /\ pc' # pc

\* C6 as stated: the validator is never invoked on a configuration it was
\* invoked on in an earlier pass of the same instance.
C6_NeverValidatedTwice ==
    [][ValidatorInvoked => byteConfig \notin validated[v.name]]_vars

\* C6 as amended: a pass that builds a configuration whose hash equals the
\* last-applied hash recorded in the status it read does not invoke the
\* validator, also when an earlier pass has validated that configuration.
C6_SkipWhenHashRecorded ==
    (HashAsRead /\ pc # "build" /\ v.hash = HashPtr(HashGet(byteConfig))) =>
        /\ pc # "validate"
        /\ ~HasStep(trace, "validate")
        /\ ~HasStep(trace, "failstatus")

C6_Witness ==
    /\ pc = "apply"
    /\ byteConfig \in validated[v.name]
    /\ v.hash = HashPtr(HashGet(byteConfig))
    /\ ~HasStep(trace, "validate")

\* C7: when the validator rejects the configuration, the pass goes on to
\* write a Failed status with the validator's reason, never applies, leaves
\* the recorded hash as it is, and returns nil; it returns an error only if
\* the write of the Failed status fails.
C7_RejectionRecorded ==
    [][/\ (ValidatorInvoked /\ byteConfig \in InvalidConfigs /\ events' = events) =>
              /\ pc' = "failstatus"
              /\ reason' = RejectReason
              /\ vec' = vec
       /\ (pc = "failstatus" /\ pc' # pc) =>
              /\ vec'[v.name].hash = vec[v.name].hash
              /\ ~HasStep(trace', "apply")
              /\ pc' = "returned"
              /\ IF StatusAnswer(v) = NoError /\ events' = events
                 THEN /\ vec'[v.name].phase = "failed"
                      /\ vec'[v.name].reason = RejectReason
                      /\ callErr' = NoError
                 ELSE /\ callErr' # NoError
                      /\ vec' = vec]_vars

C7_Witness ==
    /\ pc = "done"
    /\ req = "v1"
    /\ HasStep(trace, "failstatus")
    /\ trace[Len(trace)].res = "ok"
    /\ vec["v1"].phase = "failed"
    /\ vec["v1"].reason = RejectReason
    /\ ret = NoError

InfraFailures ==
    {Step("build", "err"), Step("validate", "err"), Step("apply", "err"),
     Step("sethash", "err"), Step("setsuccess", "err")}

\* C8: a Failed status is written only by a pass in which the validator
\* returned the validation error; a pass that ends on a listing, build,
\* validator-infrastructure, apply or status-write error returns that error
\* and writes no Failed status.
C8_FailedOnlyOnRejection ==
    /\ [](HasStep(trace, "failstatus") =>
              /\ trace[Len(trace) - (IF trace[Len(trace)].step = "failstatus"
                                     THEN 1 ELSE 0)] = Step("validate", "invalid")
              /\ byteConfig \in InvalidConfigs)
    /\ []((trace # <<>> /\ trace[Len(trace)] \in InfraFailures) =>
              /\ pc \in {"returned", "done"}
              /\ callErr # NoError
              /\ pc = "done" => ret = callErr
              /\ ~HasStep(trace, "failstatus"))
    /\ []((pc = "done" /\ trace = <<>> /\ mem = <<>> /\ ret # NoError) =>
              ret \in {ListError, GetError})
    /\ [][\A i \in Instances :
              (pc' # pc /\ vec'[i].phase = "failed" /\ vec[i].phase # "failed") =>
                  (pc = "failstatus" /\ byteConfig \in InvalidConfigs)]_vars

C8_Witness ==
    /\ pc = "done"
    /\ trace # <<>>
    /\ trace[Len(trace)] = Step("validate", "err")
    /\ ret = ValidatorFailure
    /\ vec["v1"].phase # "failed"

\* C9: waitPipelineChecks returns by the time the timeout has elapsed, also
\* if the pipeline checks never complete; it returns true only when the
\* timer case is ready and false only when the channel was closed, which
\* happens only when the counter is zero; either way Reconcile goes on to
\* look up its instances and build.
C9_GateAlwaysReturns ==
    /\ [](pc = "gate" => elapsed <= GateTimeout)
    /\ (pc = "gate") ~> (pc = "lookup")
    /\ [][(pc = "gate" /\ pc' # pc) =>
              /\ pc' = "lookup"
              /\ gateResult' = "timeout" => elapsed >= GateTimeout
              /\ gateResult' = "completed" => chanClosed
              /\ gateResult' \in {"timeout", "completed"}]_vars
    /\ [][(chanClosed' /\ ~chanClosed) => wgCount = 0]_vars
    /\ [][(pc = "lookup" /\ pc' = "build") =>
              gateResult \in {"timeout", "completed"}]_vars

C9_Witness ==
    /\ pc = "lookup"
    /\ gateResult = "timeout"
    /\ wgCount > 0

StatusConverged(i) ==
    /\ vec[i].hash = HashPtr(HashGet(GetByteConfig(pipes).cfg))
    /\ vec[i].phase = "ok"

\* the instance exists and the pipelines build to a configuration the
\* validator accepts
CanConverge(i) ==
    /\ vec[i].state # "absent"
    /\ GetByteConfig(pipes).err = NoError
    /\ GetByteConfig(pipes).cfg \notin InvalidConfigs

\* C10: a conflict on the write of the hash or of the success phase ends the
\* call with that error, with no retry and nothing written; and once the
\* other writers, the pipeline changes and the collaborators' failures have
\* stopped, the recorded hash becomes and stays the hash of the current
\* build and the phase success.
C10_StatusConverges ==
    /\ [][(pc \in {"sethash", "setsuccess"} /\ pc' # pc
              /\ StatusAnswer(v) = Conflict) =>
              /\ pc' = "returned"
              /\ callErr' # NoError
              /\ events' = events => callErr' = Conflict
              /\ vec' = vec]_vars
    /\ [](pc = "done" /\ callErr # NoError => ret = callErr)
    /\ <>[](CanConverge("v1") => StatusConverged("v1"))

C10_Witness ==
    /\ pc = "done"
    /\ trace # <<>>
    /\ trace[Len(trace)] = Step("setsuccess", "err")
    /\ ret = Conflict
    /\ vec["v1"].hash = HashPtr(cfgHash)

(***************************************************************************)
(* Claims about the configuration builder.                                 *)
(***************************************************************************)
Range(s) == {s[k] : k \in 1 .. Len(s)}

\* the names of the components of a configuration, in order
Names(components) == [k \in 1 .. Len(components) |-> components[k].Name]

AllNames(c) == Names(c.Sources) \o Names(c.Transforms) \o Names(c.Sinks)

Built == bpc = "done"

\* C11: in a built configuration no two components share a name, so the
\* name-keyed maps of the serialized configuration hold every component.
C11_NamesUnique ==
    Built =>
        /\ \A i, j \in 1 .. Len(AllNames(config)) :
              i # j => AllNames(config)[i] # AllNames(config)[j]
        /\ Cardinality(DOMAIN cfgMap.sources) = Len(config.Sources)
        /\ Cardinality(DOMAIN cfgMap.transforms) = Len(config.Transforms)
        /\ Cardinality(DOMAIN cfgMap.sinks) = Len(config.Sinks)

\* the places of the declared sources, in the order getComponents visits them
SourcePlaces ==
    {<<k, j>> : k \in 1 .. Len(pipelines), j \in 1 .. MaxPipelines + MaxSinks} \cap
    {pl \in (1 .. Len(pipelines)) \X (1 .. MaxPipelines + MaxSinks) :
        pl[2] <= Len(pipelines[pl[1]].Sources)}

Before(a, b) == a[1] < b[1] \/ (a[1] = b[1] /\ a[2] < b[2])

\* a namespaced pipeline's source of another type than the cluster-log type
TypeOffence(pl) ==
    /\ pipelines[pl[1]].Kind # ClusterPipelineKind
    /\ pipelines[pl[1]].Sources[pl[2]].Type # KubernetesSourceType

\* a namespaced pipeline's cluster-log source whose namespace filter is set
\* to another value than the label of the pipeline's namespace
ScopeOffence(pl) ==
    /\ pipelines[pl[1]].Kind # ClusterPipelineKind
    /\ pipelines[pl[1]].Sources[pl[2]].Type = KubernetesSourceType
    /\ pipelines[pl[1]].Sources[pl[2]].ExtraNamespaceLabelSelector
          \notin {EmptyString, NamespaceNameToLabel(pipelines[pl[1]].Namespace)}

\* the offence is the first one getComponents comes to
FirstOffence(pl) ==
    \A other \in SourcePlaces :
        Before(other, pl) => ~TypeOffence(other) /\ ~ScopeOffence(other)

BuildRan == bpc \notin {"idle", "start"}

BuildFailed == bpc = "failed" /\ config = NoConfig /\ buildErr # NoError

NamespacedSources(sources) ==
    {s \in Range(sources) : Len(s.Name) = 3 /\ s.Name[1] # ""}

Resolves(entry, c) ==
    \/ entry \in Range(Names(c.Sources)) \cup Range(Names(c.Transforms))
    \/ /\ Len(entry) > 1
       /\ SubSeq(entry, 1, 1) = MergedSourceTransformName
       /\ \E t \in Range(c.Transforms) :
             /\ t.Name = MergedSourceTransformName
             /\ Tail(entry) \in DOMAIN t.Route

InputsResolve(c) ==
    /\ \A t \in Range(c.Transforms) : \A e \in Range(t.Inputs) : Resolves(e, c)
    /\ \A s \in Range(c.Sinks) : \A e \in Range(s.Inputs) : Resolves(e, c)

\* C14: in a configuration the build returns, before the merge passes and
\* after them, every Inputs entry of a transform or sink names a source or a
\* transform of the configuration.
C14_InputsResolve ==
    Built => (InputsResolve(snap.defaults) /\ InputsResolve(config))

\* a cluster-log source with no field selector, no options and both a
\* pod-label and a namespace-label selector
Eligible(s) ==
    /\ s.Type = KubernetesSourceType
    /\ s.ExtraFieldSelector = EmptyString
    /\ s.Options = NilOptions
    /\ s.ExtraLabelSelector # EmptyString
    /\ s.ExtraNamespaceLabelSelector # EmptyString

NotEligible(s) == ~Eligible(s)

EligibleNames(c) == {s.Name : s \in {x \in Range(c.Sources) : Eligible(x)}}

\* the inputs after the pass: a name of a retired source becomes the name of
\* its route's output, every other entry stays
InputsRewritten(before, after, names) ==
    /\ Len(after) = Len(before)
    /\ \A n \in 1 .. Len(before) :
          after[n] = IF before[n] \in names
                     THEN MergedSourceTransformName \o before[n]
                     ELSE before[n]

SourceMergeRan == bpc \in {"mergeSinks", "serialize", "done"}

\* C15: the source-merge pass retires exactly the eligible cluster-log
\* sources; with at least one retired, the result has the non-retired
\* sources unchanged followed by exactly one merged source, the transforms
\* followed by exactly one routing transform with one route per retired
\* source keyed by its name, and every Inputs entry naming a retired source
\* rewritten to merged.<name>, all others unchanged; with none eligible (or
\* the pass off) the configuration is unchanged.
C15_SourceMergeStructure ==
    SourceMergeRan =>
        LET pre == snap.defaults
            post == snap.sourcesMerged
            names == EligibleNames(pre)
        IN IF ~agent.MergeKubernetesSources \/ names = {}
           THEN post = pre
           ELSE /\ post.Sources =
                      Append(SelectSeq(pre.Sources, NotEligible),
                             Source(MergedKubernetesSourceName, KubernetesSourceType,
                                    EmptyString, EmptyString, EmptyString, NilOptions))
                /\ Cardinality({k \in 1 .. Len(post.Sources) :
                                   post.Sources[k].Name = MergedKubernetesSourceName}) = 1
                /\ \A s \in Range(post.Sources) : ~Eligible(s)
                /\ Len(post.Transforms) = Len(pre.Transforms) + 1
                /\ Cardinality({k \in 1 .. Len(post.Transforms) :
                                   post.Transforms[k].Type = RouteTransformType}) = 1
                /\ LET router == post.Transforms[Len(post.Transforms)]
                   IN /\ router.Name = MergedSourceTransformName
                      /\ router.Type = RouteTransformType
                      /\ router.Inputs = <<MergedKubernetesSourceName>>
                      /\ DOMAIN router.Route = names
                      /\ \A s \in Range(pre.Sources) :
                            Eligible(s) =>
                                router.Route[s.Name] =
                                    generateVrlFilter(s.ExtraLabelSelector, PodSelectorType)
                                    \o <<AndAnd>>
                                    \o generateVrlFilter(s.ExtraNamespaceLabelSelector,
                                                         NamespaceSelectorType)
                /\ \A k \in 1 .. Len(pre.Transforms) :
                      /\ post.Transforms[k].Name = pre.Transforms[k].Name
                      /\ post.Transforms[k].Type = pre.Transforms[k].Type
                      /\ post.Transforms[k].Route = pre.Transforms[k].Route
                      /\ InputsRewritten(pre.Transforms[k].Inputs,
                                         post.Transforms[k].Inputs, names)
                /\ Len(post.Sinks) = Len(pre.Sinks)
                /\ \A k \in 1 .. Len(pre.Sinks) :
                      /\ post.Sinks[k].Name = pre.Sinks[k].Name
                      /\ post.Sinks[k].Type = pre.Sinks[k].Type
                      /\ post.Sinks[k].OptionsHash = pre.Sinks[k].OptionsHash
                      /\ InputsRewritten(pre.Sinks[k].Inputs, post.Sinks[k].Inputs, names)

C15_Witness ==
    /\ Built
    /\ agent.MergeKubernetesSources
    /\ EligibleNames(snap.defaults) = {addPrefix("", "p", "src")}
    /\ \E s \in Range(snap.defaults.Sources) :
          /\ s.Name = addPrefix("n2", "q", "src")
          /\ s.ExtraFieldSelector # EmptyString
          /\ s \in Range(snap.sourcesMerged.Sources)
    /\ \E t \in Range(snap.sourcesMerged.Transforms) :
          t.Inputs = <<MergedSourceTransformName \o addPrefix("", "p", "src")>>
    /\ \E s \in Range(snap.sourcesMerged.Sinks) :
          s.Inputs = <<addPrefix("n2", "q", "src")>>
    /\ \E s \in Range(snap.sourcesMerged.Sinks) :
          s.Inputs = <<addPrefix("", "p", "tr")>>

\* the comparison a clause of a selector stands for, on the labels at path
ClausePredicate(path, c) ==
    <<path, Quote, c.key, Quote, " ">>
    \o (IF c.op = "=" THEN <<"=", "=">> ELSE <<"!", "=">>)
    \o <<" ", Quote, c.value, Quote>>

\* the comparisons of the two selectors of a source, pod labels first
SelectorPredicates(pod, ns) ==
    [k \in 1 .. Len(pod) + Len(ns) |->
        IF k <= Len(pod) THEN ClausePredicate(".kubernetes.pod_labels.", pod[k])
        ELSE ClausePredicate(".kubernetes.namespace_labels.", ns[k - Len(pod)])]

\* C16: the route expression of a retired source whose selectors are
\* comma-separated key=value and key!=value clauses is the conjunction of one
\* equality or inequality predicate per pod-label clause and per
\* namespace-label clause, and on every record it evaluates to true exactly
\* when the record's pod labels and namespace labels satisfy the selectors.
C16_RouteEquivalence ==
    /\ fpc \in {"generated", "evaluated"} =>
          Split(route, <<AndAnd>>) = SelectorPredicates(podSel, nsSel)
    /\ fpc = "evaluated" =>
          /\ EvalRoute(route, record) \in {"true", "false"}
          /\ EvalRoute(route, record) = "true" <=>
                (SelectorMatches(podSel, record.pod) /\ SelectorMatches(nsSel, record.ns))

C16_Witness ==
    /\ fpc = "evaluated"
    /\ Len(podSel) = 2
    /\ podSel[1].op = "="
    /\ podSel[2].op = "!="
    /\ podSel[2].key = "team"
    /\ Len(nsSel) = 2
    /\ record.pod["team"] = "none"
    /\ EvalRoute(route, record) = "true"

(***************************************************************************)
(* Claims about the sink-merge pass.                                       *)
(***************************************************************************)
SinkMergeRan == msPc \in {"once", "twice"}

\* the sinks of a list with the OptionsHash and the Type of the sink s
SameClass(sinks, s) ==
    {k \in 1 .. Len(sinks) :
        sinks[k].OptionsHash = s.OptionsHash /\ sinks[k].Type = s.Type}

\* C17: after the sink-merge pass no two sinks share both OptionsHash and
\* Type: of the sinks with one hash and one type only the first survives,
\* renamed to its hash when it took in later ones, and the later ones are
\* dropped.
C17_OnePerHashAndType ==
    SinkMergeRan =>
        /\ \A i, j \in 1 .. Len(msOnce) :
              (msOnce[i].OptionsHash = msOnce[j].OptionsHash
               /\ msOnce[i].Type = msOnce[j].Type) => i = j
        /\ \A k \in 1 .. Len(msIn) :
              LET class == SameClass(msIn, msIn[k])
              IN \E s \in Range(msOnce) :
                    /\ SameClass(msOnce, msIn[k]) # {}
                    /\ s.OptionsHash = msIn[k].OptionsHash
                    /\ s.Type = msIn[k].Type
                    /\ s.Name = IF Cardinality(class) > 1 THEN <<s.OptionsHash>>
                                ELSE msIn[k].Name

\* C18: the sink-merge pass applied to its own result returns that result:
\* the same sinks, with the same names, types and Inputs, in the same order.
C18_SinkMergeIdempotent ==
    msPc = "twice" => msTwice = msOnce

C18_Witness ==
    /\ msPc = "twice"
    /\ Len(msIn) = MaxSinks
    /\ Len(msOnce) = 2
    /\ msOnce[1].Name = <<"1001">>
    /\ msOnce[2].Name = <<"2002">>
    /\ msTwice = msOnce

RECURSIVE TotalInputs(_)
TotalInputs(sinks) ==
    IF sinks = <<>> THEN 0
    ELSE Len(Head(sinks).Inputs) + TotalInputs(Tail(sinks))

\* C20: the sink-merge pass drops a sink only into a surviving sink of the
\* same OptionsHash and the same Type whose Inputs hold every Inputs entry
\* of the dropped sink; a surviving sink's Inputs come only from sinks of
\* its own hash and type and no entry is lost or added; and two sinks of
\* equal OptionsHash but different Type are both kept.
C20_NoRoutingLostNoTypeCrossed ==
    SinkMergeRan =>
        /\ \A k \in 1 .. Len(msIn) :
              \E s \in Range(msOnce) :
                 /\ s.OptionsHash = msIn[k].OptionsHash
                 /\ s.Type = msIn[k].Type
                 /\ Range(msIn[k].Inputs) \subseteq Range(s.Inputs)
                 /\ s.Name \in {msIn[k].Name, <<msIn[k].OptionsHash>>}
        /\ \A s \in Range(msOnce) :
              Range(s.Inputs) \subseteq
                  UNION {Range(msIn[k].Inputs) : k \in SameClass(msIn, s)}
        /\ TotalInputs(msOnce) = TotalInputs(msIn)
        /\ \A i, j \in 1 .. Len(msIn) :
              (i < j /\ msIn[i].OptionsHash = msIn[j].OptionsHash
               /\ msIn[i].Type # msIn[j].Type) =>
                  /\ SameClass(msOnce, msIn[i]) # {}
                  /\ SameClass(msOnce, msIn[j]) # {}
                  /\ Len(msIn) = 2 => msOnce = msIn

C20_Witness ==
    /\ msPc = "once"
    /\ Len(msIn) = 3
    /\ msIn[1].OptionsHash = "1001"
    /\ msIn[2].OptionsHash = "1001"
    /\ msIn[3].OptionsHash = "1001"
    /\ msIn[1].Type = BlackholeSinkType
    /\ msIn[2].Type = BlackholeSinkType
    /\ msIn[3].Type = "console"
    /\ msIn[1].Inputs # msIn[2].Inputs
    /\ Len(msOnce) = 2
    /\ msOnce[1].Type = BlackholeSinkType
    /\ Len(msOnce[1].Inputs) = 2
    /\ msOnce[2] = msIn[3]

(***************************************************************************)
(* Claims about the defaults of the builder.                               *)
(***************************************************************************)
\* C19: if the pipelines contribute no source the built configuration holds
\* the default cluster-log source, if they contribute no sink it holds the
\* default discard sink reading from that source, and the internal-metrics
\* source and sink are added exactly when internal metrics are enabled and
\* no prometheus_exporter sink is among the pipelines' sinks.
C19_Defaults ==
    Built =>
        /\ snap.components.Sources = <<>> =>
              sourceDefault \in Range(config.Sources)
        /\ snap.components.Sinks = <<>> =>
              /\ sinkDefault \in Range(config.Sinks)
              /\ sinkDefault.Inputs = <<sourceDefault.Name>>
        /\ (internalMetricSource \in Range(config.Sources)
            /\ internalMetricsExporter \in Range(config.Sinks))
           <=> (agent.InternalMetrics
                /\ \A s \in Range(snap.components.Sinks) :
                      s.Type # InternalMetricsSinkType)
        /\ internalMetricSource \in Range(config.Sources)
           <=> internalMetricsExporter \in Range(config.Sinks)

(***************************************************************************)
(* Claims about repeated calls of the synchronizer.                        *)
(***************************************************************************)
\* the running call was given the object of the last call, which returned no
\* error, and no other writer has written since that call began
RepeatsLastCall == history = [call |-> "repeat"]

\* C21: a Sync(desired) call that follows a Sync(desired) call with the same
\* object that returned no error, with no write by another writer in
\* between, issues no update.
C21_RepeatedSyncIssuesNoUpdate ==
    RepeatsLastCall => \A k \in 1 .. Len(opLog) : opLog[k] # "update"

(***************************************************************************)
(* Claims about what the controller applies and for which instances.       *)
(***************************************************************************)
\* the configuration is handed to EnsureVectorAgent in this step
ApplyInvoked == pc = "apply" /\ pc' # pc

\* a step of the controller changes the recorded hash of instance i
HashWritten(i) == pc' # pc /\ vec'[i].hash # vec[i].hash

\* C22: a configuration handed to Apply passed the validator earlier in the
\* same pass or has the hash recorded as last applied in the status the pass
\* read; the controller writes the recorded hash only after its Apply step
\* succeeded, and writes the hash of the applied configuration; hence a
\* configuration the validator rejects is never handed to Apply.
C22_NoUnvalidatedApply ==
    /\ [](pc = "apply" =>
              \/ Step("validate", "ok") \in Range(trace)
              \/ v.hash = HashPtr(cfgHash))
    /\ [][\A i \in Instances :
              HashWritten(i) =>
                  /\ pc = "sethash"
                  /\ i = v.name
                  /\ Step("apply", "ok") \in Range(trace)
                  /\ vec'[i].hash = HashPtr(HashGet(byteConfig))]_vars
    /\ [][ApplyInvoked => ValidatorVerdict(byteConfig).err = NoError]_vars

\* the instances a List returns now, in list order
ListedNames == SelectSeq(ListOrder, LAMBDA i : vec[i].state # "absent")

\* the indices after k of the objects reconcileVectors still has to handle
Remaining(k) == {j \in k + 1 .. Len(work) : ~mem[work[j]].deleting}

FleetPass == req = ""

\* C23: a request with an empty namespace hands reconcileVectors, for each
\* listed instance in list order, that instance's own object; the loop calls
\* createOrUpdateVector once for each of them that has no deletion
\* timestamp, in that order; a validator rejection does not stop the loop,
\* and the first error a call returns stops it and is returned.
C23_FleetTrigger ==
    /\ [][(FleetPass /\ pc = "lookup" /\ pc' # pc /\ ret' = NoError) =>
              /\ Len(work') = Len(ListedNames)
              /\ \A k \in 1 .. Len(ListedNames) :
                    mem'[work'[k]] = Fetched(ListedNames[k])
              /\ \A j, k \in 1 .. Len(work') :
                    j # k => mem'[work'[j]].name # mem'[work'[k]].name]_vars
    /\ [][(FleetPass /\ pc \in {"lookup", "returned"} /\ pc' = "build") =>
              /\ ~mem'[work'[cur']].deleting
              /\ \A j \in (IF pc = "lookup" THEN 1 ELSE cur + 1) .. cur' - 1 :
                    mem'[work'[j]].deleting
              /\ pc = "returned" => cur' > cur]_vars
    /\ [][(FleetPass /\ pc = "returned" /\ pc' # pc) =>
              IF callErr # NoError THEN pc' = "done" /\ ret' = callErr
              ELSE IF Remaining(cur) # {} THEN pc' = "build"
              ELSE pc' = "done" /\ ret' = NoError]_vars
    /\ [](FleetPass /\ pc = "returned" /\ HasStep(trace, "failstatus")
             /\ trace[Len(trace)].res = "ok" => callErr = NoError)

InCreateOrUpdate ==
    pc \in {"build", "validate", "failstatus", "apply", "sethash", "setsuccess",
            "returned"}

\* C24: no pass, for a named instance or for the fleet, builds, validates,
\* applies or writes status for an instance that was not found or whose
\* object carries a deletion timestamp; a pass for a named instance that is
\* not found returns no error.
C24_DeletedLeftAlone ==
    /\ [](InCreateOrUpdate => ~v.deleting)
    /\ [][(pc = "lookup" /\ pc' # pc /\ ~FleetPass /\ vec[req].state = "absent"
              /\ events' = events) =>
              /\ pc' = "done"
              /\ ret' = NoError
              /\ mem' = mem]_vars
    /\ [][\A i \in Instances :
              (pc' # pc /\ vec[i].state = "absent") => vec'[i] = vec[i]]_vars

(* Claims about the determinism of the build. *)
Rebuilt == rebuilt.run

SameOutcome == rebuilt.err = buildErr /\ rebuilt.cfgMap = cfgMap

\* C25: two runs of the build on the same pipelines and agent settings end
\* with the same error and serialize the same map, in whatever order each
\* run visits the sources, transforms and sinks of a pipeline, with the
\* sink merge on or off.
C25_BuildDeterministic == Rebuilt => SameOutcome

====
